---- MODULE Spec2Model ----
(***************************************************************************)
(* Model of the per-item update pipeline (updateItem.ts), its helpers in   *)
(* command.ts, and the state the pipeline reads and writes: one working    *)
(* tree per orchestrator, the remote branches and the open proposals.      *)
(*                                                                         *)
(* A path is a tuple of its segments: "packages/foo/hashes.json" is        *)
(* <<"packages", "foo", "hashes.json">>.  A text built by a template       *)
(* literal is the tuple of its pieces.                                     *)
(*                                                                         *)
(* The status of a path is its state relative to the index and HEAD of     *)
(* its working tree:                                                       *)
(*   "absent"     not in HEAD, not on disk                                 *)
(*   "untracked"  on disk, not in the index (and not ignored)              *)
(*   "clean"      tracked, identical to HEAD                               *)
(*   "modified"   tracked, working copy differs from the index (an edit    *)
(*                or a deletion)                                           *)
(*   "staged"     differs from HEAD, recorded in the index                 *)
(***************************************************************************)
EXTENDS Integers, Sequences, FiniteSets, TLC

\* ------------------------------------------------------------- bounds

MaxTouched == 1
MaxFormatted == 1
MaxInvocations == 2
MaxPRs == 3
MaxConcInvocations == 2
MaxVersionLen == 3
MaxOtherLen == 2
MaxFilterLen == 2
MaxDocLen == 4
MaxReadmeRuns == 2
MaxItems == 3
MaxConcurrency == 3
MaxOutputLen == 3

\* ------------------------------------------------------ the universe

Runs == {1, 2}

README == <<"README.md">>
FLAKELOCK == <<"flake.lock">>
FOOHASHES == <<"packages", "foo", "hashes.json">>
FOONEW == <<"packages", "foo", "new.json">>
STRAY == <<"stray.txt">>

Paths == {README, FLAKELOCK, FOOHASHES, FOONEW, STRAY}

\* A checkout of main: the tracked files are clean, the others do not exist.
CleanTree ==
  [p \in Paths |-> IF p \in {FOONEW, STRAY} THEN "absent" ELSE "clean"]

\* Deno.args as the caller may give them.
ArgSets ==
  { [type |-> "package", name |-> "foo", currentVersion |-> "1.2.0"],
    [type |-> "flake-input", name |-> "nixpkgs", currentVersion |-> "0a1b2c3d"],
    [type |-> "bogus", name |-> "foo", currentVersion |-> "1.2.0"],
    [type |-> "package", name |-> "foo", currentVersion |-> ""] }

NoArgs == [type |-> "", name |-> "", currentVersion |-> ""]

NoPath == << >>
NoCommit == [msg |-> << >>, paths |-> {}, run |-> 0, inv |-> 0]
NoDiag == [state |-> "none", path |-> NoPath]

\* A branch of origin points to a commit by its identity: the run and the
\* invocation that made it.
NoRef == [run |-> 0, inv |-> 0]
RefOf(c) == [run |-> c.run, inv |-> c.inv]

\* ------------------------------------------------------------ helpers

\* A faulty runChecked that never throws.
runCheckedIgnoresFailure(code) == TRUE

\* runChecked: TRUE when the command's exit code lets the caller go on,
\* FALSE when it throws.
runChecked(code) == code = 0

\* A faulty credential test that takes the empty fallback for a token.
CredentialNeverMissing(ghToken) == FALSE

\* getEnv("GH_TOKEN") is a string; !ghToken holds for the unset and the
\* empty value alike.
CredentialMissing(ghToken) == ghToken = ""

\* A faulty precondition that overlooks untracked paths.
gitPorcelainTrackedOnly(t) == {p \in Paths : t[p] \in {"modified", "staged"}}

\* git status --porcelain: the paths with a pending change.
gitPorcelain(t) == {p \in Paths : t[p] \in {"untracked", "modified", "staged"}}

\* Faulty readings of git diff --quiet: the test inverted, and a diff that
\* always reports a difference.
GitDiffQuietInverted(t) == IF \E p \in Paths : t[p] = "modified" THEN 0 ELSE 1

GitDiffQuietAlwaysDiffers(t) == 1

\* git diff --quiet: exit code 0 when no tracked path differs from the
\* index, 1 otherwise.  Untracked paths are not part of git diff.
GitDiffQuiet(t) == IF \E p \in Paths : t[p] = "modified" THEN 1 ELSE 0

\* git diff --name-only
changedFiles(t) == {p \in Paths : t[p] = "modified"}

\* git ls-files --others --exclude-standard
untrackedFiles(t) == {p \in Paths : t[p] = "untracked"}

\* Array.from(new Set([...changedFiles, ...untrackedFiles]))
allFilesOf(t) == changedFiles(t) \cup untrackedFiles(t)

\* A faulty scope rule that forgets the kind: either allow-list will do.
isAllowedChangeAnyKind(type, name, file) ==
  \/ file = README
  \/ file = FLAKELOCK
  \/ /\ Len(file) >= 3
     /\ file[1] = "packages"
     /\ file[2] = name

\* file.startsWith(`packages/${name}/`), on segments.
isAllowedChange(type, name, file) ==
  IF type = "package"
    THEN \/ file = README
         \/ /\ Len(file) >= 3
            /\ file[1] = "packages"
            /\ file[2] = name
    ELSE file = FLAKELOCK \/ file = README

\* The pathspecs of git add: `packages/${name}` README.md, or
\* flake.lock README.md.
MatchesAddPathspec(type, name, file) ==
  IF type = "package"
    THEN \/ file = README
         \/ /\ Len(file) >= 2
            /\ file[1] = "packages"
            /\ file[2] = name
    ELSE file = FLAKELOCK \/ file = README

\* A faulty git add whose pathspecs match README.md alone.
StageSetReadmeOnly(type, name, t) ==
  {p \in {README} : t[p] \in {"modified", "untracked"}}

\* git add: what the pathspecs match and differs from the index.
StageSet(type, name, t) ==
  {p \in Paths : MatchesAddPathspec(type, name, p) /\ t[p] \in {"modified", "untracked"}}

\* git diff --cached --quiet
GitDiffCachedQuiet(t) == IF \E p \in Paths : t[p] = "staged" THEN 1 ELSE 0

BranchName(type, name) ==
  IF type = "package" THEN <<"update/", name>> ELSE <<"update/flake-input/", name>>

\* A faulty title that leaves the versions out.
PrTitleNameOnly(type, name, currentVersion, newVersion) == <<"Update ", name>>

PrTitle(type, name, currentVersion, newVersion) ==
  IF type = "package"
    THEN <<name, ": ", currentVersion, " -> ", newVersion>>
    ELSE <<"flake.lock: Update ", name>>

PrBody(type, name, currentVersion, newVersion) ==
  IF type = "package"
    THEN <<"Automated update of ", name, " from ", currentVersion, " to ", newVersion, ".">>
    ELSE <<"This PR updates the flake input '", name, "'.\n\n- ", name, ": '",
           currentVersion, "' -> '", newVersion, "'">>

Branches ==
  {BranchName(a.type, a.name) : a \in {x \in ArgSets : x.type \in {"package", "flake-input"}}}

\* ---------------------------------------------- version ordering
\* version.ts.  A string is the tuple of its characters.

\* The characters of the version strings: two digits, a letter that is
\* also the prefix parseVersion strips, the dot and the two separators.
Chars == {"0", "1", "v", ".", "-", "+"}

Digits == {"0", "1"}

\* The strings of at most n characters.
Strings(n) == UNION {[1..k -> Chars] : k \in 0..n}

\* The UTF-16 code unit of a character, which the string operator < compares.
CodeUnit(ch) ==
  CASE ch = "+" -> 43
    [] ch = "-" -> 45
    [] ch = "." -> 46
    [] ch = "0" -> 48
    [] ch = "1" -> 49
    [] ch = "a" -> 97
    [] ch = "b" -> 98
    [] ch = "c" -> 99
    [] ch = "n" -> 110
    [] ch = "o" -> 111
    [] ch = "r" -> 114
    [] ch = "s" -> 115
    [] ch = "t" -> 116
    [] ch = "u" -> 117
    [] ch = "v" -> 118

\* s < t on strings: the first differing code unit decides, a proper
\* prefix is smaller.
RECURSIVE StringLess(_, _)
StringLess(s, t) ==
  IF t = << >> THEN FALSE
  ELSE IF s = << >> THEN TRUE
  ELSE IF Head(s) # Head(t) THEN CodeUnit(Head(s)) < CodeUnit(Head(t))
  ELSE StringLess(Tail(s), Tail(t))

\* String.prototype.indexOf, counting from 1; 0 when ch does not occur.
IndexOf(s, ch) ==
  IF \E i \in 1..Len(s) : s[i] = ch
    THEN CHOOSE i \in 1..Len(s) : s[i] = ch /\ \A j \in 1..(i - 1) : s[j] # ch
    ELSE 0

\* s.replace(from, to) with string arguments: the first occurrence only.
ReplaceFirst(s, from, to) ==
  IF IndexOf(s, from) = 0 THEN s ELSE [s EXCEPT ![IndexOf(s, from)] = to]

\* s.split(sep): the pieces between all occurrences of sep.
RECURSIVE Split(_, _)
Split(s, sep) ==
  IF IndexOf(s, sep) = 0 THEN <<s>>
  ELSE <<SubSeq(s, 1, IndexOf(s, sep) - 1)>>
         \o Split(SubSeq(s, IndexOf(s, sep) + 1, Len(s)), sep)

\* s.split(sep, limit): the first limit pieces of s.split(sep); the rest
\* of the string is not part of the result.
SplitLimit(s, sep, limit) ==
  LET pieces == Split(s, sep)
  IN SubSeq(pieces, 1, IF Len(pieces) < limit THEN Len(pieces) ELSE limit)

\* The value Number(part) has no integer for.
NaN == -1

\* The numeric value of a string of digits.
RECURSIVE Decimal(_)
Decimal(part) ==
  IF part = << >> THEN 0
  ELSE 10 * Decimal(SubSeq(part, 1, Len(part) - 1))
         + (IF part[Len(part)] = "1" THEN 1 ELSE 0)

\* Number(part), then Number.isInteger(n) ? n : NaN, for a part made of
\* Chars without separators: Number("") is 0, a string of digits is its
\* decimal value, anything with a letter is NaN.
NumberOrNaN(part) ==
  IF \A i \in 1..Len(part) : part[i] \in Digits THEN Decimal(part) ELSE NaN

\* numericParts: null
Null == << >>

stripLeadingV(version) ==
  IF Len(version) > 0 /\ version[1] = "v" THEN Tail(version) ELSE version

parseVersion(version) ==
  LET normalized == stripLeadingV(version)
      parts == SplitLimit(ReplaceFirst(normalized, "+", "-"), "-", 2)
      numericStr == parts[1]
      suffix == IF Len(parts) >= 2 THEN parts[2] ELSE << >>
      components == Split(numericStr, ".")
      numericParts == [i \in 1..Len(components) |-> NumberOrNaN(components[i])]
  IN IF numericStr = << >>
       THEN [numericParts |-> Null, suffix |-> suffix]
       ELSE [numericParts |->
               IF \E i \in 1..Len(numericParts) : numericParts[i] = NaN
                 THEN Null ELSE numericParts,
             suffix |-> suffix]

\* A faulty padding that ranks a missing component below every number.
numericPartAtMissingLowest(numericParts, i) ==
  IF i <= Len(numericParts) THEN numericParts[i] ELSE -1

\* parsed.numericParts[i] ?? 0
numericPartAt(numericParts, i) ==
  IF i <= Len(numericParts) THEN numericParts[i] ELSE 0

\* A faulty fallback that compares the strings without their leading v.
compareRawStripped(a, b) ==
  IF StringLess(stripLeadingV(a), stripLeadingV(b)) THEN -1 ELSE 1

\* a < b ? -1 : 1 on the two original strings.
compareRaw(a, b) == IF StringLess(a, b) THEN -1 ELSE 1

\* A faulty suffix comparison that ranks the empty suffix first, as a
\* plain string comparison does.
compareSuffixPlain(suffixA, suffixB) ==
  IF suffixA = suffixB THEN 0
  ELSE IF StringLess(suffixA, suffixB) THEN -1 ELSE 1

\* The last four lines of compareVersions, on the two suffixes.
compareSuffix(suffixA, suffixB) ==
  IF suffixA = suffixB THEN 0
  ELSE IF suffixA = << >> THEN 1
  ELSE IF suffixB = << >> THEN -1
  ELSE IF StringLess(suffixA, suffixB) THEN -1 ELSE 1

\* compareVersions after its first line, for a # b.
compareDistinct(a, b) ==
  LET parsedA == parseVersion(a)
      parsedB == parseVersion(b)
      max == IF Len(parsedA.numericParts) > Len(parsedB.numericParts)
               THEN Len(parsedA.numericParts) ELSE Len(parsedB.numericParts)
      differ == {i \in 1..max : numericPartAt(parsedA.numericParts, i)
                                  # numericPartAt(parsedB.numericParts, i)}
      first == CHOOSE i \in differ : \A j \in differ : i <= j
  IN IF parsedA.numericParts = Null \/ parsedB.numericParts = Null
       THEN compareRaw(a, b)
     ELSE IF differ # {}
       THEN (IF numericPartAt(parsedA.numericParts, first)
                  < numericPartAt(parsedB.numericParts, first) THEN -1 ELSE 1)
     ELSE compareSuffix(parsedA.suffix, parsedB.suffix)

\* A faulty compareVersions without the test a === b.
compareVersionsNoShortcut(a, b) == compareDistinct(a, b)

compareVersions(a, b) == IF a = b THEN 0 ELSE compareDistinct(a, b)

shouldUpdateAlways(current, latest) == TRUE

shouldUpdate(current, latest) == compareVersions(current, latest) < 0

\* ---------------------------------------------------------- discovery
\* discover.ts.  A name is the tuple of its characters; a filter is the
\* list of names that split(/\s+/).filter(Boolean) makes of the trimmed
\* variable, empty when the variable is unset or blank.

\* The names a package filter may hold: a, ab and b; the flake has
\* packages among the first two only.
PackageNames == {<<"a">>, <<"a", "b">>, <<"b">>}
FlakePackages == {<<"a">>, <<"a", "b">>}

ROOT == <<"r", "o", "o", "t">>

\* A property every object inherits from Object.prototype: constructor.
ObjectPrototypeKeys == {<<"c", "o", "n", "s", "t", "r", "u", "c", "t", "o", "r">>}

\* The names an input filter may hold: a, root and constructor.
InputNames == {<<"a">>, ROOT} \cup ObjectPrototypeKeys

\* The filters of at most MaxFilterLen names over a set of names.
Filters(Names) == UNION {[1..k -> Names] : k \in 0..MaxFilterLen}

\* flake.packages.<system>: a name is no attribute, a package without a
\* version attribute, or a package with its version.
PackageSets == [FlakePackages -> {"no attribute", "no version", "1.0"}]

\* JSON null
JsonNull == "<null>"

\* The value of the Nix expression: without a filter every attribute of
\* pkgs with its version or null; with one, the filtered names that are
\* attributes with a version.
NixEvalVersions(filter, pkgs) ==
  IF filter = << >>
    THEN [name \in {n \in DOMAIN pkgs : pkgs[n] # "no attribute"} |->
            IF pkgs[name] = "no version" THEN JsonNull ELSE pkgs[name]]
    ELSE [name \in {filter[i] : i \in 1..Len(filter)}
                     \cap {n \in DOMAIN pkgs : pkgs[n] \notin {"no attribute", "no version"}}
            |-> pkgs[name]]

\* A faulty sort that leaves the names in descending order.
SortedDescending(S) ==
  CHOOSE q \in [1..Cardinality(S) -> S] :
    \A i, j \in 1..Cardinality(S) : i < j => StringLess(q[j], q[i])

\* Array.prototype.sort() on a set of different strings: ascending by
\* code unit.
Sorted(S) ==
  CHOOSE q \in [1..Cardinality(S) -> S] :
    \A i, j \in 1..Cardinality(S) : i < j => StringLess(q[i], q[j])

\* The elements of a list, as a set.
Range(q) == {q[i] : i \in 1..Len(q)}

\* A faulty discoverPackages that goes on after a failed query.
discoverPackagesIgnoresCode(packagesFilter, pkgs, code) ==
  LET versions == NixEvalVersions(packagesFilter, pkgs)
      names == Sorted(DOMAIN versions)
      kept == SelectSeq(names, LAMBDA n : versions[n] # JsonNull)
  IN [items |-> [i \in 1..Len(kept) |->
                   [type |-> "package", name |-> kept[i],
                    current_version |-> versions[kept[i]]]],
      log |-> {}]

\* A faulty discoverPackages that makes an item of every name.
discoverPackagesKeepsNull(packagesFilter, pkgs, code) ==
  LET versions == NixEvalVersions(<< >>, pkgs)
      names == Sorted(DOMAIN versions)
  IN [items |-> [i \in 1..Len(names) |->
                   [type |-> "package", name |-> names[i],
                    current_version |-> versions[names[i]]]],
      log |-> {}]

\* discoverPackages: the items it returns and the lines it logs, for a
\* query that exits with code.
discoverPackages(packagesFilter, pkgs, code) ==
  LET versions == NixEvalVersions(packagesFilter, pkgs)
      names == Sorted(DOMAIN versions)
      kept == SelectSeq(names, LAMBDA n : versions[n] # JsonNull)
  IN IF code # 0
       THEN [items |-> << >>, log |-> {<<"Failed to evaluate packages">>}]
       ELSE [items |-> [i \in 1..Len(kept) |->
                          [type |-> "package", name |-> kept[i],
                           current_version |-> versions[kept[i]]]],
             log |-> {<<"Skipping", n>> :
                        n \in {m \in DOMAIN versions :
                                 versions[m] = JsonNull /\ packagesFilter = << >>}}
                     \cup {<<"Warning: not found", n>> :
                             n \in Range(packagesFilter) \ DOMAIN versions}]

\* A node of flake.lock has a locked object or not, and that a rev or not.
NoRev == << >>
Unknown == <<"u", "n", "k", "n", "o", "w", "n">>

\* The nodes: without a locked object, or with one that has no rev, a rev
\* of ten characters or a rev of three.
LockNodes ==
  {[defined |-> TRUE, locked |-> FALSE, rev |-> NoRev]}
    \cup {[defined |-> TRUE, locked |-> TRUE, rev |-> v] :
            v \in {NoRev, <<"0", "1", "1">>,
                   <<"0", "1", "1", "0", "1", "0", "0", "1", "1", "1">>}}

\* flake.lock: no file, a file that is not JSON, or a document whose nodes
\* are none, the root node alone, or the root node and a node for the
\* input a.
LockFiles ==
  {[file |-> f, nodes |-> n] : f \in {"none", "malformed"}, n \in [{} -> LockNodes]}
    \cup {[file |-> "json", nodes |-> n] :
            n \in [{} -> LockNodes]
                    \cup {m \in [{ROOT} -> LockNodes] : ~m[ROOT].locked}
                    \cup {m \in [{ROOT, <<"a">>} -> LockNodes] : ~m[ROOT].locked}}

\* An own property that is missing and not inherited: undefined.
Undefined == [defined |-> FALSE, locked |-> FALSE, rev |-> NoRev]

\* nodes[inputName] on the object JSON.parse returns: its own property, or
\* what it inherits under a key of Object.prototype, a value that is truthy
\* and has no locked property.
NodeAt(nodes, inputName) ==
  IF inputName \in DOMAIN nodes THEN nodes[inputName]
  ELSE IF inputName \in ObjectPrototypeKeys
    THEN [defined |-> TRUE, locked |-> FALSE, rev |-> NoRev]
  ELSE Undefined

\* (node.locked?.rev ?? "unknown").slice(0, 8)
currentRev(node) ==
  LET rev == IF node.locked /\ node.rev # NoRev THEN node.rev ELSE Unknown
  IN SubSeq(rev, 1, IF Len(rev) < 8 THEN Len(rev) ELSE 8)

\* discoverFlakeInputs on a lock file that is missing or parses.
discoverFlakeInputs(inputsFilter, lock) ==
  LET nodes == lock.nodes
      inputNames == IF inputsFilter # << >> THEN inputsFilter
                    ELSE Sorted(DOMAIN nodes \ {ROOT})
      kept == SelectSeq(inputNames, LAMBDA n : NodeAt(nodes, n).defined)
  IN IF lock.file = "none"
       THEN [items |-> << >>, log |-> {<<"No flake.lock found">>}]
       ELSE [items |-> [i \in 1..Len(kept) |->
                          [type |-> "flake-input", name |-> kept[i],
                           current_version |-> currentRev(NodeAt(nodes, kept[i]))]],
             log |-> {}]

\* ------------------------------------------------------ package docs
\* generatePackageDocs.ts.  A document is the list of its pieces: each
\* marker is one piece, and so is any other run of text.

beginMarker == "<!-- BEGIN GENERATED PACKAGE DOCS -->"
endMarker == "<!-- END GENERATED PACKAGE DOCS -->"

\* The documents of at most MaxDocLen pieces: markers and other text.
Documents == UNION {[1..k -> {beginMarker, endMarker, "text"}] : k \in 0..MaxDocLen}

\* What getAllPackagesMetadata returns: for some of the packages a and ab,
\* the description.  The description of a is plain text or is text that
\* holds the words of the end marker.
Metadatas ==
  {m \in UNION {[P -> {<<"text">>, <<endMarker>>}] : P \in SUBSET FlakePackages} :
     <<"a", "b">> \in DOMAIN m => m[<<"a", "b">>] = <<"text">>}

\* generateAllDocs for packages of one category: the heading, then for
\* each package in the order of its name the entry generatePackageDoc
\* makes, with its name, its description and the flake reference.
generateAllDocs(metadataByPackage, flakeRef) ==
  LET names == Sorted(DOMAIN metadataByPackage)
      RECURSIVE entries(_)
      entries(i) ==
        IF i > Len(names) THEN << >>
        ELSE <<"<details>">> \o names[i] \o metadataByPackage[names[i]]
               \o <<"nix run", flakeRef, "</details>">> \o entries(i + 1)
  IN IF Len(names) = 0 THEN << >> ELSE <<"### Utilities">> \o entries(1)

\* A faulty updateReadme that puts the generated text in place of the
\* whole document.
updateReadmeWhole(content, metadata, flakeRef, code) ==
  LET newContent == <<beginMarker>> \o generateAllDocs(metadata, flakeRef) \o <<endMarker>>
  IN [threw |-> FALSE, content |-> newContent, wrote |-> newContent # content,
      returned |-> newContent # content]

\* updateReadme on a document, with what getFlakeRef returns and what nix
\* eval returns or, with code not 0, fails to: whether it threw, the
\* document afterwards, whether it wrote the file and what it returned.
updateReadme(content, metadata, flakeRef, code) ==
  LET beginIndex == IndexOf(content, beginMarker)
      endIndex == IndexOf(content, endMarker)
      generated == generateAllDocs(metadata, flakeRef)
      newContent == SubSeq(content, 1, beginIndex) \o <<"LF LF">> \o generated
                      \o <<"LF">> \o SubSeq(content, endIndex, Len(content))
  IN IF beginIndex = 0 \/ endIndex = 0 \/ endIndex < beginIndex \/ code # 0
       THEN [threw |-> TRUE, content |-> content, wrote |-> FALSE, returned |-> FALSE]
     ELSE IF newContent = content
       THEN [threw |-> FALSE, content |-> content, wrote |-> FALSE, returned |-> FALSE]
     ELSE [threw |-> FALSE, content |-> newContent, wrote |-> TRUE, returned |-> TRUE]

\* ------------------------------------------------------------- pMap

\* Before any call of pMap, of an update script or of
\* calculateDependencyHash.
Idle == [phase |-> "none"]

workerCountAll(concurrency, length) == length

\* pMap: workerCount = Math.min(concurrency, items.length).
workerCount(concurrency, length) ==
  IF concurrency < length THEN concurrency ELSE length

\* pMap: await Promise.all(workers); return results.  The promise of pMap
\* rejects as soon as one worker has thrown and resolves once every worker
\* has left its loop; the other workers go on either way.
PromiseAll(s) ==
  IF s.phase # "pending" THEN s
  ELSE IF \E w \in DOMAIN s.workers : s.workers[w].state = "threw"
    THEN [s EXCEPT !.phase = "rejected"]
  ELSE IF \A w \in DOMAIN s.workers : s.workers[w].state = "done"
    THEN [s EXCEPT !.phase = "resolved"]
  ELSE s

TakeNextSkipping(s, w) ==
  LET index == s.nextIndex
      t == [s EXCEPT !.nextIndex = index + 2]
  IN IF index >= Len(s.items)
       THEN [t EXCEPT !.workers[w] = [state |-> "done", index |-> index]]
     ELSE IF s.items[index + 1] = "<undefined>"
       THEN [t EXCEPT !.workers[w] = [state |-> "threw", index |-> index],
                      !.error = IF @ = "" THEN "missing item" ELSE @]
     ELSE [t EXCEPT !.workers[w] = [state |-> "awaiting", index |-> index],
                    !.calls[index + 1] = @ + 1]

\* pMap, a worker from the top of its loop to its next await: it takes
\* nextIndex and advances it in one piece, leaves the loop past the end,
\* throws on an item that is undefined, and otherwise calls the mapper.
TakeNext(s, w) ==
  LET index == s.nextIndex
      t == [s EXCEPT !.nextIndex = index + 1]
  IN IF index >= Len(s.items)
       THEN [t EXCEPT !.workers[w] = [state |-> "done", index |-> index]]
     ELSE IF s.items[index + 1] = "<undefined>"
       THEN [t EXCEPT !.workers[w] = [state |-> "threw", index |-> index],
                      !.error = IF @ = "" THEN "missing item" ELSE @]
     ELSE [t EXCEPT !.workers[w] = [state |-> "awaiting", index |-> index],
                    !.calls[index + 1] = @ + 1]

ResumedInSettleOrder(s, w, value) ==
  LET index == s.workers[w].index
      free == {k \in DOMAIN s.results : s.results[k] = "<empty>"}
      slot == CHOOSE k \in free : \A j \in free : k <= j
  IN IF value = "rejected"
       THEN PromiseAll([s EXCEPT !.values[index + 1] = value,
                                 !.settled = Append(@, index),
                                 !.workers[w].state = "threw",
                                 !.error = IF @ = "" THEN "mapper" ELSE @])
       ELSE PromiseAll(TakeNext([s EXCEPT !.values[index + 1] = value,
                                          !.settled = Append(@, index),
                                          !.results[slot] = value], w))

\* pMap, a worker resumed by the promise of its mapper call: a rejection is
\* thrown out of the worker; a value is stored at the index of the call and
\* the worker goes round its loop.
Resumed(s, w, value) ==
  LET index == s.workers[w].index
  IN IF value = "rejected"
       THEN PromiseAll([s EXCEPT !.values[index + 1] = value,
                                 !.settled = Append(@, index),
                                 !.workers[w].state = "threw",
                                 !.error = IF @ = "" THEN "mapper" ELSE @])
       ELSE PromiseAll(TakeNext([s EXCEPT !.values[index + 1] = value,
                                          !.settled = Append(@, index),
                                          !.results[index + 1] = value], w))

\* ---------------------------------------------------- dependency hash

\* hash.ts: the placeholder written in place of the hash to be found.
dummySha256Hash == "sha256-AAAAAAAAAAAAAAAAAAAAAAAAAAAAAAAAAAAAAAAAAAA="

\* hash.ts, extractHashFromBuildError: the build output is the tuple of its
\* words.  The three patterns are tried in turn, "got:", "got" and
\* "actual:" followed by a sha256 hash; a pattern yields the hash of its
\* first match, and without any match the result is null.
extractHashFromBuildError(output) ==
  LET Matches(word) ==
        {i \in 1..(Len(output) - 1) :
           output[i] = word /\ output[i + 1] \in {"sha256-new", dummySha256Hash}}
      First(word) == output[(CHOOSE i \in Matches(word) :
                               \A j \in Matches(word) : i <= j) + 1]
  IN IF Matches("got:") # {} THEN First("got:")
     ELSE IF Matches("got") # {} THEN First("got")
     ELSE IF Matches("actual:") # {} THEN First("actual:")
     ELSE JsonNull

\* -------------------------------------------------------------- state

VARIABLES
  pc,          \* per run: the step main() performs next, "idle" or "exited"
  inv,         \* per run: how many times the orchestrator was invoked
  args,        \* per run: Deno.args
  env,         \* per run: [ghToken, autoMerge] read from the environment
  tree,        \* per run: its working tree, path -> status
  head,        \* per run: the branch its working tree has checked out
  newVersion,  \* per run: the local newVersion
  prNumber,    \* per run: the local prNumber (0 is null)
  exitCode,    \* per run: -1 while running, else the process exit code
  diag,        \* per run: the state and path the diagnostic names
  remote,      \* origin: branch -> the identity of the commit it points to
  prs,         \* the proposal host: the open proposals, by number
  did,         \* history, per run: the steps this invocation performed
  failed,      \* history, per run: the collaborator that reported failure
  startTree,   \* history, per run: the tree when the invocation began
  wrote,       \* history, per run: the paths the Updater wrote
  touched,     \* history, per run: paths written by Updater, docs, formatter
  lastCommit,  \* history, per run: the commit this invocation made
  rerun,       \* history, per run: re-invocation after a failed publish
  scopeTree,   \* history, per run: the tree when the scope was checked
  hadOpen,     \* history, per run: the branch had an open proposal at start
  ver,         \* a caller of version.ts: its two strings and what it got back
  disc,        \* discover.ts: its environment, its position and its results
  doc,         \* README.md and the runs of updateReadme on it
  pm,          \* one call of pMap: its workers, its results, its promise
  upd,         \* a package update script and its hashes.json
  dh           \* calculateDependencyHash and the hashes file it rewrites

vars ==
  <<pc, inv, args, env, tree, head, newVersion, prNumber, exitCode, diag,
    remote, prs, did, failed, startTree, wrote, touched, lastCommit, rerun,
    scopeTree, hadOpen, ver, disc, doc, pm, upd, dh>>

\* The state of the update pipeline, and the state outside it.
pipeline ==
  <<pc, inv, args, env, tree, head, newVersion, prNumber, exitCode, diag,
    remote, prs, did, failed, startTree, wrote, touched, lastCommit, rerun,
    scopeTree, hadOpen>>

elsewhere == <<ver, disc, doc, pm, upd, dh>>

locals == <<args, env, newVersion, prNumber>>

\* The environments the orchestrator may be started in.
Envs == [ghToken : {"", "ghp_token"}, autoMerge : {"true", "false"}]

NoEnv == [ghToken |-> "", autoMerge |-> "false"]

\* The state before any orchestrator runs, for the orchestrators in Active:
\* each has the command line and environment its caller gives it.
InitOf(Active) ==
  /\ pc = [r \in Runs |-> "idle"]
  /\ inv = [r \in Runs |-> 0]
  /\ args \in {f \in [Runs -> ArgSets \cup {NoArgs}] :
                 \A r \in Runs : f[r] = NoArgs <=> r \notin Active}
  /\ env \in {f \in [Runs -> Envs] : \A r \in Runs : r \notin Active => f[r] = NoEnv}
  /\ tree = [r \in Runs |-> CleanTree]
  /\ head = [r \in Runs |-> <<"main">>]
  /\ newVersion = [r \in Runs |-> "unknown"]
  /\ prNumber = [r \in Runs |-> 0]
  /\ exitCode = [r \in Runs |-> -1]
  /\ diag = [r \in Runs |-> NoDiag]
  /\ remote = [b \in Branches |-> NoRef]
  /\ prs = << >>
  /\ did = [r \in Runs |-> {}]
  /\ failed = [r \in Runs |-> "none"]
  /\ startTree = [r \in Runs |-> CleanTree]
  /\ wrote = [r \in Runs |-> {}]
  /\ touched = [r \in Runs |-> {}]
  /\ lastCommit = [r \in Runs |-> NoCommit]
  /\ rerun = [r \in Runs |-> FALSE]
  /\ scopeTree = [r \in Runs |-> CleanTree]
  /\ hadOpen = [r \in Runs |-> FALSE]

\* ------------------------------------------------------- control flow

\* The step goes on to the next one.
Goto(r, next, step) ==
  /\ pc' = [pc EXCEPT ![r] = next]
  /\ did' = [did EXCEPT ![r] = @ \cup {step}]
  /\ UNCHANGED <<exitCode, diag>>

\* A faulty exit that reports success whatever happened.
ExitAlwaysZero(r, code, state, path, step) ==
  /\ pc' = [pc EXCEPT ![r] = "exited"]
  /\ did' = [did EXCEPT ![r] = @ \cup step]
  /\ exitCode' = [exitCode EXCEPT ![r] = 0]
  /\ diag' = [diag EXCEPT ![r] = [state |-> state, path |-> path]]

\* Deno.exit(code), or main() returning (code 0).
Exit(r, code, state, path, step) ==
  /\ pc' = [pc EXCEPT ![r] = "exited"]
  /\ did' = [did EXCEPT ![r] = @ \cup step]
  /\ exitCode' = [exitCode EXCEPT ![r] = code]
  /\ diag' = [diag EXCEPT ![r] = [state |-> state, path |-> path]]

\* A collaborator of the step reported failure (history only).
Reports(r, code, who) ==
  failed' = [failed EXCEPT ![r] = IF code = 0 THEN @ ELSE who]

\* A faulty runChecked caller that runs the failed command again.
CheckedRetries(r, code, next, state, step) ==
  IF runChecked(code)
    THEN Goto(r, next, step)
    ELSE Goto(r, pc[r], step)

\* An error thrown inside main(): the top-level catch prints it and calls
\* Deno.exit(1).  A command run by runChecked throws when it exits non-zero.
Checked(r, code, next, state, step) ==
  IF runChecked(code)
    THEN Goto(r, next, step)
    ELSE Exit(r, 1, state, NoPath, {step})

\* What a collaborator that writes the paths W leaves of the tree t.
Written(t, W) ==
  [p \in Paths |->
    IF p \notin W THEN t[p]
    ELSE IF t[p] = "absent" THEN "untracked"
    ELSE IF t[p] = "clean" THEN "modified"
    ELSE t[p]]

\* The trees an invocation may find: a fresh checkout of main, the tree
\* as the previous invocation of this orchestrator left it, or a checkout
\* with one pending change.
StartTrees(r, I) ==
  {[t |-> CleanTree, h |-> <<"main">>], [t |-> tree[r], h |-> head[r]]}
    \cup {[t |-> Written(CleanTree, {p}), h |-> <<"main">>] : p \in I.dirty}

PublishSteps == {"list", "edit", "create", "list2"}

\* ------------------------------------------------------------- inputs

\* The shapes of flake.lock that readFlakeInputRev tells apart.
LockShapes ==
  {"unreadable", "not-json", "not-object", "nodes-not-object", "node-missing",
   "node-not-object", "locked-missing", "locked-not-object", "rev-not-string",
   "rev-empty", "rev-string"}

\* What the caller and the collaborators of a run may do: the pending path
\* of a dirty start tree, the sets of paths the Updater may write, how many
\* paths nix fmt may rewrite, the outcomes of updateReadme, of nix eval and
\* of reading flake.lock, and the exit codes of the commands that act on
\* the run's own tree (local) and on origin and the proposal host (remote).
FullInputs ==
  [dirty |-> {README, FOONEW, STRAY},
   writes |-> {S \in SUBSET Paths : Cardinality(S) <= MaxTouched},
   formats |-> MaxFormatted,
   docs |-> {"throws", "same", "written"},
   evalCodes |-> {0, 1},
   stdouts |-> {"", "1.3.0"},
   lockShapes |-> LockShapes,
   smokes |-> {<< >>, <<"build pkgs-foo">>},
   localCodes |-> {0, 1},
   remoteCodes |-> {0, 1}]

\* The same with the collaborators on the run's own tree succeeding and
\* writing at most one path.
ConcInputs ==
  [dirty |-> {FOONEW},
   writes |-> {{}, {FOOHASHES}, {FLAKELOCK}, {STRAY}},
   formats |-> 0,
   docs |-> {"same", "written"},
   evalCodes |-> {0},
   stdouts |-> {"1.3.0"},
   lockShapes |-> {"rev-string"},
   smokes |-> {<< >>},
   localCodes |-> {0},
   remoteCodes |-> {0, 1}]

\* ------------------------------------------------------------ actions

\* The caller starts the orchestrator: updateItem.ts <type> <name> <currentVersion>
Invoke(r, I) ==
  /\ pc[r] \in {"idle", "exited"}
  /\ inv[r] < MaxInvocations
  /\ \E st \in StartTrees(r, I) :
       /\ tree' = [tree EXCEPT ![r] = st.t]
       /\ head' = [head EXCEPT ![r] = st.h]
       /\ startTree' = [startTree EXCEPT ![r] = st.t]
  /\ rerun' = [rerun EXCEPT ![r] =
       pc[r] = "exited" /\ failed[r] \in PublishSteps /\ "push" \in did[r]]
  /\ inv' = [inv EXCEPT ![r] = @ + 1]
  /\ pc' = [pc EXCEPT ![r] = "ArgsChecked"]
  /\ newVersion' = [newVersion EXCEPT ![r] = "unknown"]
  /\ prNumber' = [prNumber EXCEPT ![r] = 0]
  /\ exitCode' = [exitCode EXCEPT ![r] = -1]
  /\ diag' = [diag EXCEPT ![r] = NoDiag]
  /\ did' = [did EXCEPT ![r] = {}]
  /\ failed' = [failed EXCEPT ![r] = "none"]
  /\ wrote' = [wrote EXCEPT ![r] = {}]
  /\ touched' = [touched EXCEPT ![r] = {}]
  /\ lastCommit' = [lastCommit EXCEPT ![r] = NoCommit]
  /\ scopeTree' = [scopeTree EXCEPT ![r] = CleanTree]
  /\ hadOpen' = [hadOpen EXCEPT ![r] =
       \E n \in 1..Len(prs) : prs[n].branch = BranchName(args[r].type, args[r].name)]
  /\ UNCHANGED <<elsewhere, args, env, remote, prs>>

\* main: the usage and type checks, both throwing.
ArgsChecked(r) ==
  /\ pc[r] = "ArgsChecked"
  /\ IF args[r].type = "" \/ args[r].name = "" \/ args[r].currentVersion = ""
       THEN Exit(r, 1, "Usage", NoPath, {})
     ELSE IF args[r].type \notin {"package", "flake-input"}
       THEN Exit(r, 1, "UnknownType", NoPath, {})
     ELSE Goto(r, "CredentialChecked", "args")
  /\ UNCHANGED <<elsewhere, inv, locals, tree, head, remote, prs,
                 failed, startTree, wrote, touched, lastCommit, rerun, scopeTree, hadOpen>>

\* main: GH_TOKEN must be set.
CredentialChecked(r) ==
  /\ pc[r] = "CredentialChecked"
  /\ IF CredentialMissing(env[r].ghToken)
       THEN Exit(r, 1, "Configuration", NoPath, {})
       ELSE Goto(r, "PreconditionChecked", "credential")
  /\ UNCHANGED <<elsewhere, inv, locals, tree, head, remote, prs,
                 failed, startTree, wrote, touched, lastCommit, rerun, scopeTree, hadOpen>>

\* main: git status --porcelain must print nothing.  gitPorcelain throws
\* when git itself fails.
PreconditionChecked(r, I) ==
  /\ pc[r] = "PreconditionChecked"
  /\ \E code \in I.localCodes :
       /\ Reports(r, code, "status")
       /\ IF code # 0
            THEN Exit(r, 1, "PreconditionChecked", NoPath, {"status"})
          ELSE IF gitPorcelain(tree[r]) # {}
            THEN Exit(r, 1, "PreconditionChecked", NoPath, {"status"})
          ELSE Goto(r, "Updated", "status")
  /\ UNCHANGED <<elsewhere, inv, locals, tree, head, remote, prs,
                 startTree, wrote, touched, lastCommit, rerun, scopeTree, hadOpen>>

\* main: the Updater of the item's kind (packages/<name>/update.ts or
\* nix-update for a package, nix flake update for a flake input).  It
\* writes any paths W and exits with any code.
Updated(r, I) ==
  /\ pc[r] = "Updated"
  /\ \E W \in I.writes, code \in I.localCodes :
       /\ tree' = [tree EXCEPT ![r] = Written(@, W)]
       /\ wrote' = [wrote EXCEPT ![r] = W]
       /\ touched' = [touched EXCEPT ![r] = @ \cup W]
       /\ Reports(r, code, "updater")
       /\ Checked(r, code, "DiffChecked", "Updated", "updater")
  /\ UNCHANGED <<elsewhere, inv, locals, head, remote, prs, startTree, lastCommit, rerun, scopeTree, hadOpen>>

\* main: the first git diff --quiet; 0 ends the run as a no-op.
DiffChecked(r) ==
  /\ pc[r] = "DiffChecked"
  /\ IF GitDiffQuiet(tree[r]) = 0
       THEN Exit(r, 0, "DiffChecked", NoPath, {"diff"})
       ELSE Goto(r, "DocsRegenerated", "diff")
  /\ UNCHANGED <<elsewhere, inv, locals, tree, head, remote, prs,
                 failed, startTree, wrote, touched, lastCommit, rerun, scopeTree, hadOpen>>

\* main: updateReadme("README.md") throws (no markers, unreadable file),
\* leaves the file alone (returns false) or rewrites it (returns true).
DocsRegenerated(r, I) ==
  /\ pc[r] = "DocsRegenerated"
  /\ \E out \in I.docs :
       /\ tree' = [tree EXCEPT ![r] =
            IF out = "written" THEN Written(@, {README}) ELSE @]
       /\ touched' = [touched EXCEPT ![r] =
            IF out = "written" THEN @ \cup {README} ELSE @]
       /\ Reports(r, IF out = "throws" THEN 1 ELSE 0, "docs")
       /\ IF out = "throws"
            THEN Exit(r, 1, "DocsRegenerated", NoPath, {"docs"})
            ELSE Goto(r, "Formatted", "docs")
  /\ UNCHANGED <<elsewhere, inv, locals, head, remote, prs, startTree, wrote, lastCommit, rerun, scopeTree, hadOpen>>

\* What nix fmt leaves of the tree t when it rewrites the tracked paths F:
\* a rewrite may restore the committed text or depart from it.
Reformatted(t, F) ==
  [p \in Paths |->
    IF p \notin F THEN t[p]
    ELSE IF t[p] = "modified" THEN "clean"
    ELSE IF t[p] = "clean" THEN "modified"
    ELSE t[p]]

\* main: nix fmt, the formatter of the whole repository.
Formatted(r, I) ==
  /\ pc[r] = "Formatted"
  /\ \E F \in {S \in SUBSET {p \in Paths : tree[r][p] \in {"clean", "modified"}} :
                 Cardinality(S) <= I.formats},
        code \in I.localCodes :
       /\ tree' = [tree EXCEPT ![r] = Reformatted(@, F)]
       /\ touched' = [touched EXCEPT ![r] = @ \cup F]
       /\ Reports(r, code, "format")
       /\ Checked(r, code, "DiffChecked2", "Formatted", "format")
  /\ UNCHANGED <<elsewhere, inv, locals, head, remote, prs, startTree, wrote, lastCommit, rerun, scopeTree, hadOpen>>

\* main: the second git diff --quiet; 0 ends the run as a no-op.
DiffChecked2(r) ==
  /\ pc[r] = "DiffChecked2"
  /\ IF GitDiffQuiet(tree[r]) = 0
       THEN Exit(r, 0, "DiffChecked2", NoPath, {"diff2"})
       ELSE Goto(r, "VersionResolved", "diff2")
  /\ UNCHANGED <<elsewhere, inv, locals, tree, head, remote, prs,
                 failed, startTree, wrote, touched, lastCommit, rerun, scopeTree, hadOpen>>

\* nixEvalPackageVersion: nix eval --raw of the package's version.
nixEvalPackageVersion(code, stdout) ==
  IF code # 0 THEN "unknown"
  ELSE IF stdout = "" THEN "unknown"
  ELSE stdout

\* readFlakeInputRev: [throws, value] for a flake.lock of the given shape
\* whose node, if it has a revision, is locked at rev8 (cut to 8 characters).
readFlakeInputRev(shape, rev8) ==
  IF shape \in {"unreadable", "not-json", "not-object", "nodes-not-object",
                "node-not-object", "locked-not-object"}
    THEN [throws |-> TRUE, value |-> "unknown"]
  ELSE IF shape \in {"node-missing", "locked-missing", "rev-not-string", "rev-empty"}
    THEN [throws |-> FALSE, value |-> "unknown"]
  ELSE [throws |-> FALSE, value |-> rev8]

\* main: newVersion, from nix eval (package) or flake.lock (flake input).
VersionResolved(r, I) ==
  /\ pc[r] = "VersionResolved"
  /\ IF args[r].type = "package"
       THEN \E code \in I.evalCodes, stdout \in I.stdouts :
              /\ newVersion' = [newVersion EXCEPT ![r] = nixEvalPackageVersion(code, stdout)]
              /\ Reports(r, code, "version")
              /\ Goto(r, "Validated", "version")
       ELSE \E shape \in I.lockShapes :
              LET res == readFlakeInputRev(shape, "9f8e7d6c") IN
              /\ newVersion' = [newVersion EXCEPT ![r] = res.value]
              /\ Reports(r, IF res.throws THEN 1 ELSE 0, "version")
              /\ IF res.throws
                   THEN Exit(r, 1, "VersionResolved", NoPath, {"version"})
                   ELSE Goto(r, "Validated", "version")
  /\ UNCHANGED <<elsewhere, inv, args, env, prNumber, tree, head, remote, prs,
                 startTree, wrote, touched, lastCommit, rerun, scopeTree, hadOpen>>

\* The commands of the validation, in order; smoke is the list of
\* readSmokePackages.
ValidationCommands(type, smoke) ==
  IF type = "package"
    THEN <<"build pkgs-name", "build formatter-check", "build formatter-denoCheck">>
    ELSE <<"flake check", "build formatter-check", "build formatter-denoCheck">> \o smoke

\* main: the build and check commands, each under runChecked: the first
\* that exits non-zero throws.  k is the command that fails first, 0 when
\* every command exits 0.
Validated(r, I) ==
  /\ pc[r] = "Validated"
  /\ \E smoke \in I.smokes :
       \E k \in {0} \cup {i \in 1..Len(ValidationCommands(args[r].type, smoke)) : 1 \in I.localCodes} :
         LET code == IF k = 0 THEN 0 ELSE 1 IN
         /\ Reports(r, code, "validate")
         /\ Checked(r, code, "ScopeChecked", "Validated", "validate")
  /\ UNCHANGED <<elsewhere, inv, locals, tree, head, remote, prs,
                 startTree, wrote, touched, lastCommit, rerun, scopeTree, hadOpen>>

\* The place of a path in allFiles.sort() (by UTF-16 code units).
SortRank(p) ==
  CASE p = README -> 1
    [] p = FLAKELOCK -> 2
    [] p = FOOHASHES -> 3
    [] p = FOONEW -> 4
    [] p = STRAY -> 5

\* The first element of the sorted list of the paths S.
FirstSorted(S) == CHOOSE p \in S : \A q \in S : SortRank(p) <= SortRank(q)

\* main: every changed and untracked path must be allowed; the loop over
\* the sorted list exits at the first one that is not.
ScopeChecked(r) ==
  /\ pc[r] = "ScopeChecked"
  /\ LET allFiles == allFilesOf(tree[r])
         bad == {f \in allFiles : ~isAllowedChange(args[r].type, args[r].name, f)}
     IN IF allFiles = {}
          THEN Exit(r, 1, "ExpectedChanges", NoPath, {"scope"})
        ELSE IF bad # {}
          THEN Exit(r, 1, "ScopeChecked", FirstSorted(bad), {"scope"})
        ELSE Goto(r, "Switched", "scope")
  /\ scopeTree' = [scopeTree EXCEPT ![r] = tree[r]]
  /\ UNCHANGED <<elsewhere, inv, locals, tree, head, remote, prs,
                 failed, startTree, wrote, touched, lastCommit, rerun, hadOpen>>

\* main: git switch -C <branch>
Switched(r, I) ==
  /\ pc[r] = "Switched"
  /\ \E code \in I.localCodes :
       /\ head' = [head EXCEPT ![r] =
            IF code = 0 THEN BranchName(args[r].type, args[r].name) ELSE @]
       /\ Reports(r, code, "switch")
       /\ Checked(r, code, "Staged", "Committed", "switch")
  /\ UNCHANGED <<elsewhere, inv, locals, tree, remote, prs,
                 startTree, wrote, touched, lastCommit, rerun, scopeTree, hadOpen>>

\* main: git add of the kind's pathspecs
Staged(r, I) ==
  /\ pc[r] = "Staged"
  /\ \E code \in I.localCodes :
       /\ tree' = [tree EXCEPT ![r] =
            IF code # 0 THEN @
            ELSE [p \in Paths |->
                   IF p \in StageSet(args[r].type, args[r].name, tree[r])
                     THEN "staged" ELSE tree[r][p]]]
       /\ Reports(r, code, "add")
       /\ Checked(r, code, "StageChecked", "Committed", "add")
  /\ UNCHANGED <<elsewhere, inv, locals, head, remote, prs,
                 startTree, wrote, touched, lastCommit, rerun, scopeTree, hadOpen>>

\* main: git diff --cached --quiet; 0 is "nothing staged for commit".
StageChecked(r) ==
  /\ pc[r] = "StageChecked"
  /\ IF GitDiffCachedQuiet(tree[r]) = 0
       THEN Exit(r, 1, "NothingStaged", NoPath, {"staged"})
       ELSE Goto(r, "Committed", "staged")
  /\ UNCHANGED <<elsewhere, inv, locals, tree, head, remote, prs,
                 failed, startTree, wrote, touched, lastCommit, rerun, scopeTree, hadOpen>>

\* The commit git commit -m <prTitle> makes of the index.
CommitOf(r) ==
  [msg |-> PrTitle(args[r].type, args[r].name, args[r].currentVersion, newVersion[r]),
   paths |-> {p \in Paths : tree[r][p] = "staged"},
   run |-> r,
   inv |-> inv[r]]

\* main: git commit -m <prTitle> --signoff
Committed(r, I) ==
  /\ pc[r] = "Committed"
  /\ \E code \in I.localCodes :
       /\ tree' = [tree EXCEPT ![r] =
            IF code # 0 THEN @
            ELSE [p \in Paths |-> IF tree[r][p] = "staged" THEN "clean" ELSE tree[r][p]]]
       /\ lastCommit' = [lastCommit EXCEPT ![r] = IF code # 0 THEN @ ELSE CommitOf(r)]
       /\ Reports(r, code, "commit")
       /\ Checked(r, code, "Pushed", "Committed", "commit")
  /\ UNCHANGED <<elsewhere, inv, locals, head, remote, prs, startTree, wrote, touched, rerun, scopeTree, hadOpen>>

\* main: git push --force --set-upstream origin <branch>
Pushed(r, I) ==
  /\ pc[r] = "Pushed"
  /\ \E code \in I.remoteCodes :
       /\ remote' = [remote EXCEPT ![BranchName(args[r].type, args[r].name)] =
            IF code # 0 THEN @ ELSE RefOf(lastCommit[r])]
       /\ Reports(r, code, "push")
       /\ Checked(r, code, "Published", "Committed", "push")
  /\ UNCHANGED <<elsewhere, inv, locals, tree, head, prs,
                 startTree, wrote, touched, lastCommit, rerun, scopeTree, hadOpen>>

\* gh pr list --head <branch> --json number: the numbers of the open
\* proposals of the branch.
OpenFor(branch) == {n \in 1..Len(prs) : prs[n].branch = branch}

\* A faulty lookup that never finds a proposal.
ghPrNumberForBranchNull(branch) == 0

\* ghPrNumberForBranch: parsed[0].number of the list gh prints (newest
\* first), or null (0) for the empty list.
ghPrNumberForBranch(branch) ==
  IF OpenFor(branch) = {} THEN 0
  ELSE CHOOSE n \in OpenFor(branch) : \A m \in OpenFor(branch) : m <= n

\* main: prNumber = ghPrNumberForBranch(branch), which throws when gh fails.
Published(r, I) ==
  /\ pc[r] = "Published"
  /\ \E code \in I.remoteCodes :
       LET found == ghPrNumberForBranch(BranchName(args[r].type, args[r].name)) IN
       /\ prNumber' = [prNumber EXCEPT ![r] = IF code = 0 THEN found ELSE @]
       /\ Reports(r, code, "list")
       /\ IF code # 0
            THEN Exit(r, 1, "Published", NoPath, {"list"})
          ELSE IF found # 0
            THEN Goto(r, "Edited", "list")
          ELSE Goto(r, "Created", "list")
  /\ UNCHANGED <<elsewhere, inv, args, env, newVersion, tree, head, remote, prs,
                 startTree, wrote, touched, lastCommit, rerun, scopeTree, hadOpen>>

\* A faulty edit that replaces the title and keeps the old body.
EditedProposalKeepsBody(pr, title, body) == [pr EXCEPT !.title = title]

\* gh pr edit --title <title> --body <body>: the proposal afterwards.
EditedProposal(pr, title, body) == [pr EXCEPT !.title = title, !.body = body]

\* main: gh pr edit <prNumber> --title <prTitle> --body <prBody>
Edited(r, I) ==
  /\ pc[r] = "Edited"
  /\ \E code \in I.remoteCodes :
       /\ prs' =
            IF code # 0 THEN prs
            ELSE [prs EXCEPT ![prNumber[r]] =
                   EditedProposal(@,
                     PrTitle(args[r].type, args[r].name,
                             args[r].currentVersion, newVersion[r]),
                     PrBody(args[r].type, args[r].name,
                            args[r].currentVersion, newVersion[r]))]
       /\ Reports(r, code, "edit")
       /\ Checked(r, code, "AutoMergeRequested", "Published", "edit")
  /\ UNCHANGED <<elsewhere, inv, locals, tree, head, remote,
                 startTree, wrote, touched, lastCommit, rerun, scopeTree, hadOpen>>

\* main: gh pr create --title <prTitle> --body <prBody> --base main --head <branch>
Created(r, I) ==
  /\ pc[r] = "Created"
  /\ \E code \in I.remoteCodes :
       /\ code = 0 => Len(prs) < MaxPRs
       /\ prs' =
            IF code # 0 THEN prs
            ELSE Append(prs,
                   [branch |-> BranchName(args[r].type, args[r].name),
                    title |-> PrTitle(args[r].type, args[r].name,
                                      args[r].currentVersion, newVersion[r]),
                    body |-> PrBody(args[r].type, args[r].name,
                                    args[r].currentVersion, newVersion[r]),
                    auto |-> FALSE])
       /\ Reports(r, code, "create")
       /\ Checked(r, code, "Listed", "Published", "create")
  /\ UNCHANGED <<elsewhere, inv, locals, tree, head, remote,
                 startTree, wrote, touched, lastCommit, rerun, scopeTree, hadOpen>>

\* main: prNumber = ghPrNumberForBranch(branch) after the create.
Listed(r, I) ==
  /\ pc[r] = "Listed"
  /\ \E code \in I.remoteCodes :
       /\ prNumber' = [prNumber EXCEPT ![r] =
            IF code = 0 THEN ghPrNumberForBranch(BranchName(args[r].type, args[r].name))
            ELSE @]
       /\ Reports(r, code, "list2")
       /\ Checked(r, code, "AutoMergeRequested", "Published", "list2")
  /\ UNCHANGED <<elsewhere, inv, args, env, newVersion, tree, head, remote, prs,
                 startTree, wrote, touched, lastCommit, rerun, scopeTree, hadOpen>>

\* A faulty toggle that requests auto-merge for every proposal.
AutoMergeAlways(autoMerge, number) == number # 0

\* autoMerge === "true" && prNumber !== null
AutoMergeEnabled(autoMerge, number) == autoMerge = "true" /\ number # 0

\* main: gh pr merge <prNumber> --auto --squash when AUTO_MERGE is "true";
\* its failure is caught and logged.  main() then returns.
AutoMergeRequested(r, I) ==
  /\ pc[r] = "AutoMergeRequested"
  /\ IF AutoMergeEnabled(env[r].autoMerge, prNumber[r])
       THEN \E code \in I.remoteCodes :
              /\ prs' = IF code = 0 THEN [prs EXCEPT ![prNumber[r]].auto = TRUE] ELSE prs
              /\ Reports(r, code, "merge")
              /\ Exit(r, 0, "Done", NoPath, {"merge"})
       ELSE /\ UNCHANGED <<prs, failed>>
            /\ Exit(r, 0, "Done", NoPath, {})
  /\ UNCHANGED <<elsewhere, inv, locals, tree, head, remote,
                 startTree, wrote, touched, lastCommit, rerun, scopeTree, hadOpen>>

\* ------------------------------------------- actions of version.ts

\* Before any call: the two strings the caller holds.
NoVer ==
  [a |-> << >>, b |-> << >>, op |-> "none",
   parsed |-> [numericParts |-> Null, suffix |-> << >>],
   ab |-> 0, ba |-> 0, aa |-> 0,
   updAB |-> FALSE, updBA |-> FALSE, updAA |-> FALSE]

\* The strings the caller may compare: a of at most MaxVersionLen
\* characters, b of at most MaxOtherLen or a with another last character.
VersionInputs == {[NoVer EXCEPT !.a = a] : a \in Strings(MaxVersionLen)}

OtherVersions == Strings(MaxOtherLen)

\* The strings that differ from a in their last character only.
NearVersions(a) ==
  IF a = << >> THEN {}
  ELSE {[a EXCEPT ![Len(a)] = ch] : ch \in Chars \ {a[Len(a)]}}

\* parseVersion(a)
VersionParsed ==
  /\ ver.op = "none"
  /\ ver' = [ver EXCEPT !.op = "parseVersion", !.parsed = parseVersion(ver.a)]
  /\ UNCHANGED <<pipeline, disc, doc, pm, upd, dh>>

\* compareVersions and shouldUpdate on a and a second string b, both ways
\* round, and on a with itself.
VersionsCompared ==
  /\ ver.op = "none"
  /\ \E b \in OtherVersions \cup NearVersions(ver.a) :
       ver' = [ver EXCEPT !.op = "compareVersions",
                          !.b = b,
                          !.ab = compareVersions(ver.a, b),
                          !.ba = compareVersions(b, ver.a),
                          !.aa = compareVersions(ver.a, ver.a),
                          !.updAB = shouldUpdate(ver.a, b),
                          !.updBA = shouldUpdate(b, ver.a),
                          !.updAA = shouldUpdate(ver.a, ver.a)]
  /\ UNCHANGED <<pipeline, disc, doc, pm, upd, dh>>

\* ------------------------------------------- actions of discover.ts

\* Before main() runs: PACKAGES and INPUTS as its caller sets them.
NoDisc ==
  [pc |-> "idle", packages |-> << >>, inputs |-> << >>,
   pkgs |-> [n \in FlakePackages |-> "no attribute"], code |-> 0,
   lock |-> [file |-> "none", nodes |-> [n \in {} |-> Undefined]],
   matrixItems |-> << >>, packageItems |-> << >>, inputItems |-> << >>,
   log |-> {}, include |-> << >>, hasItems |-> FALSE]

DiscoveryInputs ==
  {[NoDisc EXCEPT !.pc = "discoverPackages", !.packages = p, !.inputs = i] :
     p \in Filters(PackageNames), i \in Filters(InputNames)}

\* matrixItems.push(...await discoverPackages(packages || undefined, system))
\* against any flake and any outcome of the query.
PackagesDiscovered ==
  /\ disc.pc = "discoverPackages"
  /\ \E pkgs \in PackageSets, code \in {0, 1} :
       LET result == discoverPackages(disc.packages, pkgs, code)
       IN disc' = [disc EXCEPT !.pc = "discoverFlakeInputs",
                               !.pkgs = pkgs,
                               !.code = code,
                               !.matrixItems = @ \o result.items,
                               !.packageItems = result.items,
                               !.log = @ \cup result.log]
  /\ UNCHANGED <<pipeline, ver, doc, pm, upd, dh>>

\* matrixItems.push(...await discoverFlakeInputs(inputs || undefined))
\* against any flake.lock; JSON.parse throws on a file that is not JSON and
\* nothing catches it.
FlakeInputsDiscovered ==
  /\ disc.pc = "discoverFlakeInputs"
  /\ \E lock \in LockFiles :
       LET result == discoverFlakeInputs(disc.inputs, lock)
       IN IF lock.file = "malformed"
            THEN disc' = [disc EXCEPT !.pc = "threw", !.lock = lock]
            ELSE disc' = [disc EXCEPT !.pc = "output",
                                      !.lock = lock,
                                      !.matrixItems = @ \o result.items,
                                      !.inputItems = result.items,
                                      !.log = @ \cup result.log]
  /\ UNCHANGED <<pipeline, ver, doc, pm, upd, dh>>

\* The rest of main(): matrix and has_items are written out.
OutputWritten ==
  /\ disc.pc = "output"
  /\ disc' = [disc EXCEPT !.pc = "done",
                          !.include = IF Len(disc.matrixItems) = 0
                                        THEN << >> ELSE disc.matrixItems,
                          !.hasItems = Len(disc.matrixItems) # 0]
  /\ UNCHANGED <<pipeline, ver, doc, pm, upd, dh>>

\* --------------------------------- actions of generatePackageDocs.ts

\* Before updateReadme runs.
NoDoc ==
  [content |-> << >>, flakeRef |-> ".", runs |-> 0,
   before |-> << >>, metadata |-> << >>, code |-> 0,
   previous |-> [before |-> << >>, metadata |-> << >>, code |-> 0, threw |-> FALSE],
   threw |-> FALSE, wrote |-> FALSE, returned |-> FALSE]

\* Any document, and the flake reference the environment gives.
DocInputs ==
  {[NoDoc EXCEPT !.content = c, !.flakeRef = f] :
     c \in Documents, f \in {".", "github:owner/repo"}}

\* updateReadme("README.md"), against any package metadata and any outcome
\* of nix eval.
ReadmeUpdated ==
  /\ doc.runs < MaxReadmeRuns
  /\ \E metadata \in Metadatas, code \in {0, 1} :
       LET result == updateReadme(doc.content, metadata, doc.flakeRef, code)
       IN /\ code # 0 => DOMAIN metadata = {}
          /\ doc' = [doc EXCEPT
                       !.runs = @ + 1,
                       !.before = doc.content,
                       !.metadata = metadata,
                       !.code = code,
                       !.previous = [before |-> doc.before, metadata |-> doc.metadata,
                                     code |-> doc.code, threw |-> doc.threw],
                       !.content = result.content,
                       !.threw = result.threw,
                       !.wrote = result.wrote,
                       !.returned = result.returned]
  /\ UNCHANGED <<pipeline, ver, disc, pm, upd, dh>>

\* ------------------------------------------------- actions of pMap.ts

\* pMap up to the first await of each worker: the default and the check of
\* the concurrency, the result array, and the workers started one after the
\* other, each running to its first mapper call.
PMapCalled ==
  /\ pm.phase = "idle"
  /\ LET length == Len(pm.items)
         concurrency == IF pm.given THEN pm.concurrency ELSE length
         count == workerCount(concurrency, length)
         begun == [pm EXCEPT !.phase = "pending",
                             !.results = [k \in 1..length |-> "<empty>"],
                             !.workers = [w \in 1..count |->
                                            [state |-> "new", index |-> 0]]]
         RECURSIVE Started(_, _)
         Started(s, w) == IF w > count THEN s ELSE Started(TakeNext(s, w), w + 1)
     IN pm' = IF ~pm.integer \/ concurrency < 1
                THEN [pm EXCEPT !.phase = "rejected", !.error = "invalid concurrency"]
                ELSE PromiseAll(Started(begun, 1))
  /\ UNCHANGED <<pipeline, ver, disc, doc, upd, dh>>

\* The promise of one mapper call settles, with a value or a rejection, and
\* its worker resumes.  Any call in flight may be the next to settle.
MapperSettled ==
  /\ pm.phase \in {"pending", "resolved", "rejected"}
  /\ \E w \in DOMAIN pm.workers, value \in {"p", "q", "rejected"} :
       /\ pm.workers[w].state = "awaiting"
       /\ pm' = Resumed(pm, w, value)
  /\ UNCHANGED <<pipeline, ver, disc, doc, upd, dh>>

\* ------------------------------- actions of the package update scripts

\* The platforms an update script fetches a hash for, in the order it goes
\* through them: handy sorts the entries of filePatterns by platform.
Platforms(script) ==
  IF script = "handy"
    THEN <<"aarch64-darwin", "x86_64-darwin", "x86_64-linux">>
    ELSE <<"x86_64-linux", "aarch64-linux", "x86_64-darwin", "aarch64-darwin">>

\* main up to the hashes: read hashes.json, fetch the latest release (the
\* request may fail), return when shouldUpdate says no; handy then calls
\* pMap over its platforms with one worker for each.
UpdateStarted ==
  /\ upd.phase = "idle"
  /\ \E response \in {"failed", "tag"},
        latest \in {<<"1">>, <<"1", ".", "0">>, <<"1", ".", "1">>, <<"v", "1", ".", "1">>} :
       LET normalized == stripLeadingV(latest)
           platforms == Platforms(upd.script)
       IN IF ~upd.file.string \/ response = "failed"
            THEN /\ latest = <<"1">>
                 /\ upd' = [upd EXCEPT !.phase = "threw"]
                 /\ pm' = pm
          ELSE IF ~shouldUpdate(upd.file.version, normalized)
            THEN /\ upd' = [upd EXCEPT !.phase = "up to date", !.latest = normalized]
                 /\ pm' = pm
          ELSE /\ upd' = [upd EXCEPT !.phase = "hashing", !.latest = normalized]
               /\ pm' = IF upd.script # "handy" THEN pm
                        ELSE [phase |-> "idle", items |-> platforms, given |-> TRUE,
                              integer |-> TRUE, concurrency |-> Len(platforms),
                              results |-> << >>, nextIndex |-> 0, workers |-> << >>,
                              calls |-> [k \in DOMAIN platforms |-> 0],
                              values |-> [k \in DOMAIN platforms |-> "none"],
                              settled |-> << >>, error |-> ""]
  /\ UNCHANGED <<pipeline, ver, disc, doc, dh>>

\* catnip and opencode: await calculatePlatformHashes(urlTemplate,
\* platforms).  It returns a hash for every platform, or throws.
PlatformHashesCalculated ==
  /\ upd.phase = "hashing"
  /\ upd.script # "handy"
  /\ upd.fetched = << >>
  /\ \/ upd' = [upd EXCEPT !.phase = "threw"]
     \/ \E hashes \in [DOMAIN Platforms(upd.script) -> {"p", "q"}] :
          upd' = [upd EXCEPT !.fetched = hashes]
  /\ UNCHANGED <<pipeline, ver, disc, doc, pm, dh>>

\* main from the hashes on: handy's await of pMap throws when pMap
\* rejected; otherwise the new version and the hashes are written.
HashesWritten ==
  /\ upd.phase = "hashing"
  /\ IF upd.script = "handy"
       THEN pm.phase \in {"resolved", "rejected"}
       ELSE upd.fetched # << >>
  /\ upd' = IF upd.script = "handy" /\ pm.phase = "rejected"
              THEN [upd EXCEPT !.phase = "threw"]
              ELSE [upd EXCEPT
                      !.phase = "updated",
                      !.writes = @ + 1,
                      !.file = [string |-> TRUE, version |-> upd.latest,
                                hashes |-> IF upd.script = "handy"
                                             THEN pm.results ELSE upd.fetched]]
  /\ UNCHANGED <<pipeline, ver, disc, doc, pm, dh>>

\* --------------------------------------- actions of dependencyHash.ts

\* calculateDependencyHash up to the build: the value under hashKey must be
\* a string; the data with the placeholder under hashKey is written.
DummyWritten ==
  /\ dh.phase = "idle"
  /\ dh' = IF ~dh.data.hash.string
             THEN [dh EXCEPT !.phase = "threw", !.error = "must be a string"]
             ELSE LET dummyData ==
                        [dh.data EXCEPT !.hash = [string |-> TRUE,
                                                  value |-> dummySha256Hash]]
                  IN [dh EXCEPT !.phase = "building",
                                !.file = dummyData,
                                !.writes = Append(@, dummyData)]
  /\ UNCHANGED <<pipeline, ver, disc, doc, pm, upd>>

BuildCapturedNoRestore ==
  /\ dh.phase = "building"
  /\ \E spawned \in BOOLEAN, code \in {0, 1},
        output \in UNION {[1..n -> {"specified:", "got:", "got", "actual:",
                                    "sha256-new", dummySha256Hash}] :
                            n \in 0..MaxOutputLen} :
       LET extracted == extractHashFromBuildError(output)
           error == IF ~spawned THEN "build could not run"
                    ELSE IF code = 0 THEN "build succeeded"
                    ELSE IF extracted = JsonNull THEN "could not extract"
                    ELSE ""
       IN /\ ~spawned => (code = 1 /\ output = << >>)
          /\ dh' = IF error = ""
                     THEN [dh EXCEPT !.phase = "returned", !.code = code,
                                     !.output = output, !.result = extracted]
                     ELSE [dh EXCEPT !.phase = "threw", !.code = code,
                                     !.output = output, !.error = error]
  /\ UNCHANGED <<pipeline, ver, disc, doc, pm, upd>>

\* calculateDependencyHash from the build on: nix build may fail to run, may
\* succeed, or may fail with or without a hash in its output.  The hash is
\* returned; every other outcome is caught, the data is written back with
\* the original value under hashKey, and the error is thrown again.
BuildCaptured ==
  /\ dh.phase = "building"
  /\ \E spawned \in BOOLEAN, code \in {0, 1},
        output \in UNION {[1..n -> {"specified:", "got:", "got", "actual:",
                                    "sha256-new", dummySha256Hash}] :
                            n \in 0..MaxOutputLen} :
       LET extracted == extractHashFromBuildError(output)
           error == IF ~spawned THEN "build could not run"
                    ELSE IF code = 0 THEN "build succeeded"
                    ELSE IF extracted = JsonNull THEN "could not extract"
                    ELSE ""
           restored == [dh.data EXCEPT !.hash = dh.data.hash]
       IN /\ ~spawned => (code = 1 /\ output = << >>)
          /\ dh' = IF error = ""
                     THEN [dh EXCEPT !.phase = "returned", !.code = code,
                                     !.output = output, !.result = extracted]
                     ELSE [dh EXCEPT !.phase = "threw", !.code = code,
                                     !.output = output, !.error = error,
                                     !.file = restored,
                                     !.writes = Append(@, restored)]
  /\ UNCHANGED <<pipeline, ver, disc, doc, pm, upd>>

\* ------------------------------------------------------ specifications

\* The steps of main(), in the order of its text.
Step(r, I) ==
  \/ ArgsChecked(r)
  \/ CredentialChecked(r)
  \/ PreconditionChecked(r, I)
  \/ Updated(r, I)
  \/ DiffChecked(r)
  \/ DocsRegenerated(r, I)
  \/ Formatted(r, I)
  \/ DiffChecked2(r)
  \/ VersionResolved(r, I)
  \/ Validated(r, I)
  \/ ScopeChecked(r)
  \/ Switched(r, I)
  \/ Staged(r, I)
  \/ StageChecked(r)
  \/ Committed(r, I)
  \/ Pushed(r, I)
  \/ Published(r, I)
  \/ Edited(r, I)
  \/ Created(r, I)
  \/ Listed(r, I)
  \/ AutoMergeRequested(r, I)

\* One orchestrator, invoked again and again by its caller, with every
\* behaviour of its collaborators.
Next == Invoke(1, FullInputs) \/ Step(1, FullInputs)

Init ==
  /\ InitOf({1}) /\ ver = NoVer /\ disc = NoDisc /\ doc = NoDoc
  /\ pm = Idle /\ upd = Idle /\ dh = Idle

Spec == Init /\ [][Next]_vars

\* Two orchestrators at once, each on its own working tree, sharing origin
\* and the proposal host; together they are invoked MaxConcInvocations times.
ConcInvoke(r) ==
  /\ inv[1] + inv[2] < MaxConcInvocations
  /\ Invoke(r, ConcInputs)

NextConc == \E r \in Runs : ConcInvoke(r) \/ Step(r, ConcInputs)

InitConc ==
  /\ InitOf(Runs)
  /\ ver = NoVer
  /\ disc = NoDisc
  /\ doc = NoDoc
  /\ pm = Idle /\ upd = Idle /\ dh = Idle
  /\ \A r \in Runs :
       /\ args[r].type \in {"package", "flake-input"}
       /\ args[r].currentVersion # ""
       /\ env[r] = [ghToken |-> "ghp_token", autoMerge |-> "false"]

SpecConc == InitConc /\ [][NextConc]_vars

\* A caller of version.ts with any two strings; no pipeline runs.
NextVersion == VersionParsed \/ VersionsCompared

InitVersion ==
  /\ InitOf({}) /\ ver \in VersionInputs /\ disc = NoDisc /\ doc = NoDoc
  /\ pm = Idle /\ upd = Idle /\ dh = Idle

SpecVersion == InitVersion /\ [][NextVersion]_vars

\* discover.ts run once, with any PACKAGES and INPUTS.
NextDiscovery == PackagesDiscovered \/ FlakeInputsDiscovered \/ OutputWritten

InitDiscovery ==
  /\ InitOf({}) /\ ver = NoVer /\ disc \in DiscoveryInputs /\ doc = NoDoc
  /\ pm = Idle /\ upd = Idle /\ dh = Idle

SpecDiscovery == InitDiscovery /\ [][NextDiscovery]_vars

\* updateReadme run again and again on one document.
NextReadme == ReadmeUpdated

InitReadme ==
  /\ InitOf({}) /\ ver = NoVer /\ disc = NoDisc /\ doc \in DocInputs
  /\ pm = Idle /\ upd = Idle /\ dh = Idle

SpecReadme == InitReadme /\ [][NextReadme]_vars

\* pMap called once, with any items and any concurrency option; the mapper
\* promises settle in any order.  The call has not begun: any list of at
\* most MaxItems items, some of them undefined, and the concurrency option
\* absent, an integer or not an integer.
InitPMap ==
  /\ InitOf({}) /\ ver = NoVer /\ disc = NoDisc /\ doc = NoDoc
  /\ upd = Idle /\ dh = Idle
  /\ pm \in
       {[phase |-> "idle", items |-> items, given |-> o.given, integer |-> o.integer,
         concurrency |-> o.concurrency,
         results |-> << >>, nextIndex |-> 0, workers |-> << >>,
         calls |-> [k \in 1..Len(items) |-> 0],
         values |-> [k \in 1..Len(items) |-> "none"],
         settled |-> << >>, error |-> ""] :
          items \in UNION {[1..n -> {"x", "<undefined>"}] : n \in 0..MaxItems},
          o \in {[given |-> FALSE, integer |-> TRUE, concurrency |-> 0],
                 [given |-> TRUE, integer |-> FALSE, concurrency |-> 1]}
                \cup [given : {TRUE}, integer : {TRUE}, concurrency : 0..MaxConcurrency]}

SpecPMap == InitPMap /\ [][PMapCalled \/ MapperSettled]_vars

\* One update script run once, against any release the host reports and
\* any outcome of the hash fetches.  hashes.json holds a version, or
\* something that is not a string under version, and an old hash for every
\* platform.
InitUpdate ==
  /\ InitOf({}) /\ ver = NoVer /\ disc = NoDisc /\ doc = NoDoc
  /\ pm = Idle /\ dh = Idle
  /\ upd \in
       {[phase |-> "idle", script |-> script,
         file |-> [string |-> string, version |-> version,
                   hashes |-> [k \in DOMAIN Platforms(script) |-> "old"]],
         original |-> [string |-> string, version |-> version,
                       hashes |-> [k \in DOMAIN Platforms(script) |-> "old"]],
         latest |-> << >>, fetched |-> << >>, writes |-> 0] :
          script \in {"catnip", "handy", "opencode"},
          string \in BOOLEAN,
          version \in {<<"1">>, <<"1", ".", "0">>, <<"1", ".", "1">>}}

SpecUpdate ==
  InitUpdate /\ [][UpdateStarted \/ PMapCalled \/ MapperSettled
                      \/ PlatformHashesCalculated \/ HashesWritten]_vars

\* calculateDependencyHash called once.  The data holds a version and, under
\* hashKey, a hash, the placeholder itself, or a number; the hashes file
\* holds the same data or an older version of it.
InitHash ==
  /\ InitOf({}) /\ ver = NoVer /\ disc = NoDisc /\ doc = NoDoc
  /\ pm = Idle /\ upd = Idle
  /\ dh \in
       {[phase |-> "idle",
         data |-> [version |-> "1.1", hash |-> hash],
         file |-> [version |-> version, hash |-> hash],
         original |-> [version |-> version, hash |-> hash],
         writes |-> << >>, code |-> 0, output |-> << >>,
         result |-> "", error |-> ""] :
          version \in {"1.0", "1.1"},
          hash \in {[string |-> TRUE, value |-> "sha256-old"],
                    [string |-> TRUE, value |-> dummySha256Hash],
                    [string |-> FALSE, value |-> "42"]}}

SpecHash == InitHash /\ [][DummyWritten \/ BuildCaptured]_vars

\* ------------------------------------------------------------ claims

\* The allow-list of an item's kind as a set of paths: for a
\* package README.md and the paths under packages/<name>/, for a pinned
\* reference flake.lock and README.md.
AllowList(a) ==
  IF a.type = "package"
    THEN {p \in Paths : p = README \/ (Len(p) > 2 /\ SubSeq(p, 1, 2) = <<"packages", a.name>>)}
    ELSE {FLAKELOCK, README}

\* The paths of a tree with a pending change: modified or untracked.
Pending(t) == {p \in Paths : t[p] \in {"modified", "untracked"}}

\* The tree has no difference from the committed state.
TreeSame(t) == \A p \in Paths : t[p] \in {"clean", "absent"}

\* The branch of a run's item.
Branch(r) == BranchName(args[r].type, args[r].name)

\* The steps of Committed and Published: branch switch, staging, commit,
\* push, proposal lookup, edit and create, auto-merge.
PublishingSteps ==
  {"switch", "add", "staged", "commit", "push", "list", "edit", "create", "list2", "merge"}

\* The steps after the first and after the second diff check.
AfterDiffChecked ==
  {"docs", "format", "diff2", "version", "validate", "scope"} \cup PublishingSteps

AfterDiffChecked2 == {"version", "validate", "scope"} \cup PublishingSteps

\* The steps that write to the working tree, to origin or to the proposal host.
MutatingSteps ==
  {"updater", "docs", "format", "switch", "add", "commit", "push", "edit", "create", "merge"}

C2_OutsideWriteAborts ==
  \A r \in Runs :
    (pc[r] = "exited" /\ failed[r] = "none" /\ wrote[r] \ AllowList(args[r]) # {}) =>
      /\ exitCode[r] # 0
      /\ diag[r].state = "ScopeChecked"
      /\ diag[r].path \in Paths \ AllowList(args[r])

\* C3: after an Updater that succeeded and left the tree as committed, the
\* run does nothing but the first diff check, and exits 0 there: no docs
\* regeneration, formatting, validation, switch, commit, push or proposal.
C3_NoOpAfterUpdate ==
  \A r \in Runs :
    ("updater" \in did[r] /\ failed[r] # "updater" /\ wrote[r] = {}) =>
      /\ pc[r] \in {"DiffChecked", "exited"}
      /\ did[r] \cap AfterDiffChecked = {}
      /\ pc[r] = "exited" => exitCode[r] = 0 /\ diag[r].state = "DiffChecked"

\* C3's case: a run ended as a no-op after an Updater that wrote nothing.
C3_Witness ==
  \E r \in Runs :
    /\ pc[r] = "exited"
    /\ "updater" \in did[r]
    /\ wrote[r] = {}
    /\ exitCode[r] = 0
    /\ diag[r].state = "DiffChecked"

\* C4: the second diff check on a tree without difference from the committed
\* state ends the run there with exit code 0, before version resolution,
\* validation and every publishing step.
C4_NoOpAfterFormat ==
  [][\A r \in Runs :
       (pc[r] = "DiffChecked2" /\ TreeSame(tree[r]) /\ pc'[r] # pc[r]) =>
         /\ pc'[r] = "exited"
         /\ exitCode'[r] = 0
         /\ diag'[r].state = "DiffChecked2"
         /\ did'[r] \cap AfterDiffChecked2 = {}]_vars

\* C4's case: the Updater changed a path, the formatter cancelled the
\* change, and the run ended as a no-op at the second diff check.
C4_Witness ==
  \E r \in Runs :
    /\ pc[r] = "exited"
    /\ wrote[r] # {}
    /\ "format" \in did[r]
    /\ TreeSame(tree[r])
    /\ exitCode[r] = 0
    /\ diag[r].state = "DiffChecked2"

\* C5: a run that began with an open proposal for its branch and completed
\* the publish step leaves exactly one open proposal for the branch, whose
\* title and body are the ones this run computed.
C5_SecondRunReplaces ==
  \A r \in Runs :
    (pc[r] = "exited" /\ exitCode[r] = 0 /\ hadOpen[r] /\ "list" \in did[r]) =>
      /\ Cardinality(OpenFor(Branch(r))) = 1
      /\ \A n \in OpenFor(Branch(r)) :
           /\ prs[n].title = PrTitle(args[r].type, args[r].name,
                                     args[r].currentVersion, newVersion[r])
           /\ prs[n].body = PrBody(args[r].type, args[r].name,
                                   args[r].currentVersion, newVersion[r])

\* C5's case: the second run found the first run's proposal, whose title
\* differed from its own, and replaced it.
C5_Witness ==
  \E r \in Runs :
    /\ pc[r] = "exited"
    /\ exitCode[r] = 0
    /\ hadOpen[r]
    /\ inv[r] = 2
    /\ "edit" \in did[r]
    /\ newVersion[r] = "1.3.0"
    /\ Len(prs) = 1

\* C6 (as claimed): no branch ever has two open proposals.
C6_AtMostOneOpenPerBranch ==
  \A b \in Branches : Cardinality(OpenFor(b)) <= 1

\* C7: when a validation command fails the run exits non-zero, having
\* performed no scope check and no publishing step.
C7_ValidationFailureUnpublished ==
  \A r \in Runs :
    failed[r] = "validate" =>
      /\ pc[r] = "exited"
      /\ exitCode[r] # 0
      /\ did[r] \cap ({"scope"} \cup PublishingSteps) = {}

\* C7's case: a validation command failed after the Updater changed the tree.
C7_Witness ==
  \E r \in Runs :
    /\ pc[r] = "exited"
    /\ failed[r] = "validate"
    /\ diag[r].state = "Validated"
    /\ wrote[r] # {}

\* C8: a mutating step is performed only with the credential present and a
\* start tree that git status reported clean; without the credential, or
\* on a dirty tree, the run exits non-zero and leaves the tree as it found
\* it; without the credential git status is never asked.
C8_NoMutationBeforePreconditions ==
  \A r \in Runs :
    /\ did[r] \cap MutatingSteps # {} =>
         env[r].ghToken # "" /\ TreeSame(startTree[r]) /\ "status" \in did[r]
    /\ (pc[r] = "exited" /\ (env[r].ghToken = "" \/ ~TreeSame(startTree[r]))) =>
         /\ exitCode[r] # 0
         /\ tree[r] = startTree[r]
         /\ did[r] \cap MutatingSteps = {}
    /\ env[r].ghToken = "" => "status" \notin did[r]

\* C8's case: with the credential present the run found a dirty tree and
\* ended at the precondition.
C8_Witness ==
  \E r \in Runs :
    /\ pc[r] = "exited"
    /\ env[r].ghToken # ""
    /\ ~TreeSame(startTree[r])
    /\ "status" \in did[r]
    /\ diag[r].state = "PreconditionChecked"

\* C9 (as claimed): a run re-invoked after a publish failure that followed
\* the push, and that exits 0, leaves exactly one open proposal for the branch.
C9_RerunEndsWithOneProposal ==
  \A r \in Runs :
    (rerun[r] /\ pc[r] = "exited" /\ exitCode[r] = 0) =>
      Cardinality(OpenFor(Branch(r))) = 1

\* C9 (amended): a failure of the publish step leaves the pushed commit on
\* the branch; the re-invoked run goes through every step from the
\* precondition before it pushes; if it completes the publish step the
\* branch has exactly one open proposal, and if it ends as a no-op the
\* branch has the proposals the failed run left, at most one.
C9_RerunPublishesOneOrNothing ==
  \A r \in Runs :
    /\ (pc[r] = "exited" /\ failed[r] \in PublishSteps) =>
         /\ lastCommit[r] # NoCommit
         /\ remote[Branch(r)] = RefOf(lastCommit[r])
         /\ head[r] = Branch(r)
    /\ (rerun[r] /\ "push" \in did[r]) =>
         {"status", "updater", "diff", "docs", "format", "diff2", "version",
          "validate", "scope", "switch", "add", "staged", "commit"} \subseteq did[r]
    /\ (rerun[r] /\ pc[r] = "exited" /\ exitCode[r] = 0) =>
         IF "list" \in did[r]
           THEN Cardinality(OpenFor(Branch(r))) = 1
           ELSE /\ Cardinality(OpenFor(Branch(r))) <= 1
                /\ did[r] \cap PublishingSteps = {}

\* C9's case: the first run pushed and failed in the publish step, and the
\* re-invoked run completed the publish step.
C9_Witness ==
  \E r \in Runs :
    /\ rerun[r]
    /\ pc[r] = "exited"
    /\ exitCode[r] = 0
    /\ "list" \in did[r]
    /\ Cardinality(OpenFor(Branch(r))) = 1

\* C10: with one working tree per orchestrator, a run's commit holds only
\* paths that the run itself wrote (Updater, docs regeneration, formatter),
\* that are in the allow-list of its item, and that had no pending change
\* when the run began.
C10_CommitHoldsOwnChangesOnly ==
  \A r \in Runs :
    lastCommit[r] # NoCommit =>
      /\ lastCommit[r].paths # {}
      /\ lastCommit[r].paths \subseteq touched[r] \cap AllowList(args[r])
      /\ \A p \in lastCommit[r].paths : startTree[r][p] \in {"clean", "absent"}

\* C10's case: both orchestrators have committed, each on its own tree.
C10_Witness ==
  \A r \in Runs :
    /\ lastCommit[r] # NoCommit
    /\ README \in lastCommit[r].paths
    /\ Cardinality(lastCommit[r].paths) = 2

\* C11 (as claimed): the version step never ends the run; whenever it has
\* been performed the run has gone on to the validation, with newVersion
\* "unknown" when the version could not be determined.
C11_VersionNeverAborts ==
  \A r \in Runs :
    "version" \in did[r] =>
      /\ ~(pc[r] = "exited" /\ diag[r].state = "VersionResolved")
      /\ failed[r] = "version" => newVersion[r] = "unknown"

\* C12: gh pr merge is run only with AUTO_MERGE "true" and after this run
\* edited or created the proposal and holds its number; when the request
\* fails the run still exits 0 and the proposal is still open.
C12_AutoMergeOptionalAndHarmless ==
  \A r \in Runs :
    /\ "merge" \in did[r] =>
         /\ env[r].autoMerge = "true"
         /\ "edit" \in did[r] \/ "create" \in did[r]
         /\ prNumber[r] \in OpenFor(Branch(r))
    /\ failed[r] = "merge" =>
         /\ pc[r] = "exited"
         /\ exitCode[r] = 0
         /\ prNumber[r] \in OpenFor(Branch(r))

\* C12's case: the auto-merge request failed after the proposal was created.
C12_Witness ==
  \E r \in Runs :
    /\ failed[r] = "merge"
    /\ "create" \in did[r]
    /\ exitCode[r] = 0
    /\ Len(prs) = 1

\* The outcomes a run reports with exit code 0: the two no-ops and the
\* completed publish.
SuccessStates == {"DiffChecked", "DiffChecked2", "Done"}

\* The collaborators whose failure is fatal.
FatalSteps ==
  {"status", "updater", "docs", "format", "validate", "switch", "add",
   "commit", "push", "list", "edit", "create", "list2"}

\* C13: a run exits 0 exactly when it ends as one of the two no-ops or after
\* the publish step (edit, or create and second lookup) is complete, whatever
\* the auto-merge did; a failure of a fatal step makes it exit non-zero.
C13_ExitZeroIffNoOpOrPublished ==
  \A r \in Runs :
    /\ pc[r] = "exited" =>
         /\ exitCode[r] = 0 <=> diag[r].state \in SuccessStates
         /\ diag[r].state = "DiffChecked" => "diff" \in did[r] /\ "docs" \notin did[r]
         /\ diag[r].state = "DiffChecked2" => "diff2" \in did[r] /\ "version" \notin did[r]
         /\ diag[r].state = "Done" =>
              "edit" \in did[r] \/ {"create", "list2"} \subseteq did[r]
         /\ exitCode[r] = 0 => failed[r] \notin FatalSteps
    /\ failed[r] \in FatalSteps => pc[r] = "exited" /\ exitCode[r] # 0

\* C13's case: a run ended with exit code 0 after publishing although its
\* auto-merge request failed, and had exited non-zero the time before.
C13_Witness ==
  \E r \in Runs :
    /\ pc[r] = "exited"
    /\ exitCode[r] = 0
    /\ diag[r].state = "Done"
    /\ failed[r] = "merge"
    /\ rerun[r]

\* The steps of main() in the order of its text, up to the proposal lookup.
StepOrder ==
  <<"args", "credential", "status", "updater", "diff", "docs", "format",
    "diff2", "version", "validate", "scope", "switch", "add", "staged",
    "commit", "push", "list">>

\* The steps before the n-th.
FirstSteps(n) == {StepOrder[i] : i \in 1..n}

\* The sets of steps a run may have performed: an initial part of the
\* order, then edit or create and second lookup, then the auto-merge.
StepPrefixes ==
  {FirstSteps(n) : n \in 0..Len(StepOrder)}
    \cup {FirstSteps(Len(StepOrder)) \cup T :
            T \in {{"edit"}, {"edit", "merge"}, {"create"}, {"create", "list2"},
                   {"create", "list2", "merge"}}}

\* The steps performed when main() is about to perform the step at a label.
Before(label) ==
  CASE label = "ArgsChecked" -> {FirstSteps(0)}
    [] label = "CredentialChecked" -> {FirstSteps(1)}
    [] label = "PreconditionChecked" -> {FirstSteps(2)}
    [] label = "Updated" -> {FirstSteps(3)}
    [] label = "DiffChecked" -> {FirstSteps(4)}
    [] label = "DocsRegenerated" -> {FirstSteps(5)}
    [] label = "Formatted" -> {FirstSteps(6)}
    [] label = "DiffChecked2" -> {FirstSteps(7)}
    [] label = "VersionResolved" -> {FirstSteps(8)}
    [] label = "Validated" -> {FirstSteps(9)}
    [] label = "ScopeChecked" -> {FirstSteps(10)}
    [] label = "Switched" -> {FirstSteps(11)}
    [] label = "Staged" -> {FirstSteps(12)}
    [] label = "StageChecked" -> {FirstSteps(13)}
    [] label = "Committed" -> {FirstSteps(14)}
    [] label = "Pushed" -> {FirstSteps(15)}
    [] label = "Published" -> {FirstSteps(16)}
    [] label = "Edited" -> {FirstSteps(17)}
    [] label = "Created" -> {FirstSteps(17)}
    [] label = "Listed" -> {FirstSteps(17) \cup {"create"}}
    [] label = "AutoMergeRequested" ->
         {FirstSteps(17) \cup {"edit"}, FirstSteps(17) \cup {"create", "list2"}}
    [] OTHER -> StepPrefixes

\* C14: at every moment of a run the steps performed are exactly the ones
\* that precede the step it is about to perform, so every step happens in
\* order and at most once; a run whose fatal step failed has exited, and the
\* failed step is the last it performed.
C14_StrictOrderNoRetry ==
  \A r \in Runs :
    /\ did[r] \in Before(pc[r])
    /\ failed[r] \in FatalSteps =>
         /\ pc[r] = "exited"
         /\ \E n \in 1..Len(StepOrder) :
              \/ StepOrder[n] = failed[r] /\ did[r] = FirstSteps(n)
              \/ failed[r] \in {"edit", "create"}
                   /\ did[r] = FirstSteps(Len(StepOrder)) \cup {failed[r]}
              \/ failed[r] = "list2"
                   /\ did[r] = FirstSteps(Len(StepOrder)) \cup {"create", "list2"}

\* C14's case: the formatter failed; the run ended there with every earlier
\* step performed and none after it.
C14_Witness ==
  \E r \in Runs :
    /\ pc[r] = "exited"
    /\ failed[r] = "format"
    /\ did[r] = FirstSteps(7)
    /\ exitCode[r] = 1

\* C15: the branch a run switches to and pushes, the message of its commit
\* and the title of the proposal it publishes are the texts built from the
\* kind, the name and the two versions alone: update/<name> and
\* "<name>: <currentVersion> -> <newVersion>" for a package,
\* update/flake-input/<name> and "flake.lock: Update <name>" for a flake
\* input; every proposal of the orchestrator's item is on that one branch.
C15_NamesFromItemAlone ==
  \A r \in Runs :
    LET a == args[r]
        branch == IF a.type = "package" THEN <<"update/", a.name>>
                  ELSE <<"update/flake-input/", a.name>>
        title == IF a.type = "package"
                   THEN <<a.name, ": ", a.currentVersion, " -> ", newVersion[r]>>
                   ELSE <<"flake.lock: Update ", a.name>>
    IN /\ ("switch" \in did[r] /\ failed[r] # "switch") => head[r] = branch
       /\ lastCommit[r] # NoCommit => lastCommit[r].msg = title
       /\ ("push" \in did[r] /\ failed[r] # "push") =>
            remote[branch] = RefOf(lastCommit[r])
       /\ (pc[r] = "exited" /\ diag[r].state = "Done") =>
            /\ prs[prNumber[r]].branch = branch
            /\ prs[prNumber[r]].title = title
            /\ prs[prNumber[r]].title = lastCommit[r].msg
       /\ (inv[r] > 0 /\ \A q \in Runs \ {r} : inv[q] = 0) =>
            \A n \in 1..Len(prs) : prs[n].branch = branch

\* C15's case: the package foo went from 1.2.0 to 1.3.0 and its proposal
\* was published on update/foo, and this was the second run for the item.
C15_Witness ==
  \E r \in Runs :
    /\ pc[r] = "exited"
    /\ diag[r].state = "Done"
    /\ inv[r] = 2
    /\ head[r] = <<"update/", "foo">>
    /\ lastCommit[r].msg = <<"foo", ": ", "1.2.0", " -> ", "1.3.0">>
    /\ prs[prNumber[r]].title = <<"foo", ": ", "1.2.0", " -> ", "1.3.0">>

\* C16 (as claimed): compare is transitive: for the caller's a and b and
\* every third string c, compare(a,b) < 0 and compare(b,c) < 0 imply
\* compare(a,c) < 0.
C16_CompareTransitive ==
  ver.op = "compareVersions" =>
    \A c \in OtherVersions :
      (ver.ab < 0 /\ compareVersions(ver.b, c) < 0) => compareVersions(ver.a, c) < 0

\* C17: compare(a,b) = -compare(b,a) and compare(a,a) = 0; shouldUpdate is
\* compare < 0, does not hold both ways round and does not hold of a and a.
C17_CompareAntisymmetric ==
  ver.op = "compareVersions" =>
    /\ ver.ab \in {-1, 0, 1}
    /\ ver.ab = -ver.ba
    /\ ver.aa = 0
    /\ ver.updAB <=> ver.ab < 0
    /\ ver.updBA <=> ver.ba < 0
    /\ ~(ver.updAB /\ ver.updBA)
    /\ ~ver.updAA

\* C17's case: 1-v against 1, a pre-release against its release: an update
\* is due one way round and not the other.
C17_Witness ==
  /\ ver.op = "compareVersions"
  /\ ver.a = <<"1", "-", "v">>
  /\ ver.b = <<"1">>
  /\ ver.ab = -1
  /\ ver.ba = 1
  /\ ver.updAB
  /\ ~ver.updBA

\* The version without one leading v.
Unprefixed(version) ==
  IF version # << >> /\ Head(version) = "v" THEN Tail(version) ELSE version

\* The place of the first - or + of a string, 0 when it has neither.
FirstSeparator(s) ==
  IF \E i \in 1..Len(s) : s[i] \in {"-", "+"}
    THEN CHOOSE i \in 1..Len(s) :
           s[i] \in {"-", "+"} /\ \A j \in 1..(i - 1) : s[j] \notin {"-", "+"}
    ELSE 0

\* The numeric segment: everything before the first separator.
NumericSegment(version) ==
  LET s == Unprefixed(version)
  IN IF FirstSeparator(s) = 0 THEN s ELSE SubSeq(s, 1, FirstSeparator(s) - 1)

\* The remainder: everything after the first separator, empty without one.
Remainder(version) ==
  LET s == Unprefixed(version)
  IN IF FirstSeparator(s) = 0 THEN << >> ELSE SubSeq(s, FirstSeparator(s) + 1, Len(s))

\* The numeric parts with zeros appended up to length n.
Padded(numericParts, n) ==
  [i \in 1..n |-> IF i <= Len(numericParts) THEN numericParts[i] ELSE 0]

\* Both strings have numeric parts, and the parts are equal once padded.
SameNumericParts(a, b) ==
  LET pa == parseVersion(a).numericParts
      pb == parseVersion(b).numericParts
      n == IF Len(pa) > Len(pb) THEN Len(pa) ELSE Len(pb)
  IN pa # Null /\ pb # Null /\ Padded(pa, n) = Padded(pb, n)

\* C18 (as claimed): the suffix parseVersion returns is the whole remainder
\* after the first - or + of the version without its leading v; two versions
\* with equal numeric parts and different remainders do not compare as equal.
C18_SuffixIsWholeRemainder ==
  /\ ver.op = "parseVersion" => ver.parsed.suffix = Remainder(ver.a)
  /\ (ver.op = "compareVersions" /\ SameNumericParts(ver.a, ver.b)
        /\ Remainder(ver.a) # Remainder(ver.b)) => ver.ab # 0

\* A non-negative decimal integer literal: digits, at least one.
DecimalLiteral(part) == part # << >> /\ \A i \in 1..Len(part) : part[i] \in Digits

\* C19 (as claimed): numericParts is absent whenever a dot-separated
\* component of the numeric segment is not a decimal literal; when present
\* it has the value of every component, one number per component.
C19_NumericPartsAllOrNothing ==
  ver.op = "parseVersion" =>
    LET components == Split(NumericSegment(ver.a), ".")
        parts == ver.parsed.numericParts
    IN /\ (\E i \in 1..Len(components) : ~DecimalLiteral(components[i])) => parts = Null
       /\ parts # Null =>
            /\ Len(parts) = Len(components)
            /\ \A i \in 1..Len(parts) : parts[i] = Decimal(components[i]) /\ parts[i] >= 0

\* C20: when both strings have numeric parts, the first position at which
\* the parts, padded with zeros, differ decides compare; when no position
\* differs compare is 0 exactly when the suffixes are equal.
C20_FirstNumericDifferenceDecides ==
  (ver.op = "compareVersions"
     /\ parseVersion(ver.a).numericParts # Null
     /\ parseVersion(ver.b).numericParts # Null) =>
    LET pa == parseVersion(ver.a).numericParts
        pb == parseVersion(ver.b).numericParts
        n == IF Len(pa) > Len(pb) THEN Len(pa) ELSE Len(pb)
        differ == {i \in 1..n : Padded(pa, n)[i] # Padded(pb, n)[i]}
        first == CHOOSE i \in differ : \A j \in differ : i <= j
    IN IF differ # {}
         THEN ver.ab = (IF Padded(pa, n)[first] < Padded(pb, n)[first] THEN -1 ELSE 1)
         ELSE ver.ab = 0 <=> parseVersion(ver.a).suffix = parseVersion(ver.b).suffix

\* C20's case: 1.0 against 1: the missing component counts as 0.
C20_Witness ==
  /\ ver.op = "compareVersions"
  /\ ver.a = <<"1", ".", "0">>
  /\ ver.b = <<"1">>
  /\ ver.ab = 0

\* s precedes t lexicographically: they agree up to some place where s has
\* ended and t has not, or where s has the smaller code unit.
LexBefore(s, t) ==
  \E i \in 1..(Len(t)) :
    /\ \A j \in 1..(i - 1) : j <= Len(s) /\ s[j] = t[j]
    /\ \/ i = Len(s) + 1
       \/ i <= Len(s) /\ CodeUnit(s[i]) < CodeUnit(t[i])

\* C21: of two versions with equal numeric parts, the one whose parsed
\* suffix is empty ranks after the one whose parsed suffix is not, and two
\* different non-empty suffixes rank in lexicographic order.
C21_ReleaseOutranksPreRelease ==
  (ver.op = "compareVersions" /\ SameNumericParts(ver.a, ver.b)) =>
    LET suffixA == parseVersion(ver.a).suffix
        suffixB == parseVersion(ver.b).suffix
    IN /\ (suffixA = << >> /\ suffixB # << >>) => (ver.ab > 0 /\ ver.ba < 0)
       /\ (suffixA # << >> /\ suffixB = << >>) => (ver.ab < 0 /\ ver.ba > 0)
       /\ (suffixA # << >> /\ suffixB # << >> /\ suffixA # suffixB) =>
            ver.ab = (IF LexBefore(suffixA, suffixB) THEN -1 ELSE 1)

\* C21's case: 1-0 against 1-v, two pre-releases of 1: the suffix 0
\* precedes the suffix v.
C21_Witness ==
  /\ ver.op = "compareVersions"
  /\ ver.a = <<"1", "-", "0">>
  /\ ver.b = <<"1", "-", "v">>
  /\ ver.ab = -1
  /\ ver.ba = 1

\* C22: when one of two different strings has no numeric parts, compare is
\* the lexicographic comparison of the two strings as given, leading v and
\* suffix included.
C22_FallbackComparesOriginals ==
  (ver.op = "compareVersions" /\ ver.a # ver.b
     /\ (parseVersion(ver.a).numericParts = Null
           \/ parseVersion(ver.b).numericParts = Null)) =>
    /\ ver.ab = (IF LexBefore(ver.a, ver.b) THEN -1 ELSE 1)
    /\ ver.ba = (IF LexBefore(ver.b, ver.a) THEN -1 ELSE 1)

\* C22's case: v against 1: v has no numeric parts and follows 1 as a
\* string, although without its v it is the empty string.
C22_Witness ==
  /\ ver.op = "compareVersions"
  /\ ver.a = <<"v">>
  /\ ver.b = <<"1">>
  /\ parseVersion(ver.a).numericParts = Null
  /\ ver.ab = 1
  /\ ver.ba = -1

\* No two items of the list have the same kind and name.
OnePerName(items) ==
  \A i, j \in 1..Len(items) :
    (items[i].type = items[j].type /\ items[i].name = items[j].name) => i = j

\* The items of a list, by name.
ItemNames(items) == {items[i].name : i \in 1..Len(items)}

\* C23 (as claimed): every item list discovery produces, the packages, the
\* flake inputs and the matrix, has at most one item per kind and name,
\* whatever the filters.
C23_OneItemPerName ==
  /\ OnePerName(disc.packageItems)
  /\ OnePerName(disc.inputItems)
  /\ OnePerName(disc.matrixItems)
  /\ OnePerName(disc.include)

\* C24: the package items are strictly ascending by name, with a filter
\* and without, and in the list written out no flake input precedes a
\* package.
C24_PackagesAscendingAndFirst ==
  /\ \A i, j \in 1..Len(disc.packageItems) :
       i < j => LexBefore(disc.packageItems[i].name, disc.packageItems[j].name)
  /\ \A i, j \in 1..Len(disc.include) :
       i < j => ~(disc.include[i].type = "flake-input" /\ disc.include[j].type = "package")
  /\ disc.pc = "done" => disc.include = disc.packageItems \o disc.inputItems

\* C24's case: the filter names ab before a, both are packages and a is a
\* flake input: the list written out is a, ab, then the input.
C24_Witness ==
  /\ disc.pc = "done"
  /\ disc.packages = <<<<"a", "b">>, <<"a">>>>
  /\ Len(disc.include) = 3
  /\ disc.include[1].name = <<"a">> /\ disc.include[1].type = "package"
  /\ disc.include[2].name = <<"a", "b">> /\ disc.include[2].type = "package"
  /\ disc.include[3].type = "flake-input"

\* The name is a package of the flake with a version attribute.
Resolvable(name) ==
  name \in DOMAIN disc.pkgs /\ disc.pkgs[name] \notin {"no attribute", "no version"}

\* C25: after a query that succeeded, no package item is for a name
\* without a version; with a filter every filtered name without one has its
\* own warning, nothing is thrown and the filtered names with a version
\* are all returned; without a filter every package without a version is
\* logged as skipped.
C25_UnresolvableNamesDropped ==
  (disc.pc \notin {"idle", "discoverPackages"} /\ disc.code = 0) =>
    /\ \A n \in ItemNames(disc.packageItems) : Resolvable(n)
    /\ \A i \in 1..Len(disc.packageItems) :
         disc.packageItems[i].current_version = disc.pkgs[disc.packageItems[i].name]
    /\ disc.packages # << >> =>
         /\ \A n \in Range(disc.packages) :
              ~Resolvable(n) => <<"Warning: not found", n>> \in disc.log
         /\ ItemNames(disc.packageItems) = {n \in Range(disc.packages) : Resolvable(n)}
    /\ disc.packages = << >> =>
         /\ \A n \in DOMAIN disc.pkgs :
              disc.pkgs[n] = "no version" => <<"Skipping", n>> \in disc.log
         /\ ItemNames(disc.packageItems) = {n \in DOMAIN disc.pkgs : Resolvable(n)}

\* C25's case: the filter names b, which the flake does not have, and a,
\* which has a version: b is warned about and a is returned.
C25_Witness ==
  /\ disc.pc = "done"
  /\ disc.code = 0
  /\ disc.packages = <<<<"b">>, <<"a">>>>
  /\ <<"Warning: not found", <<"b">>>> \in disc.log
  /\ ItemNames(disc.packageItems) = {<<"a">>}

FirstChars(rev, n) == [i \in 1..(IF Len(rev) < n THEN Len(rev) ELSE n) |-> rev[i]]

\* C27 (as claimed): with a lock document, every requested name that has
\* a node yields an item with the first 8 characters of its locked
\* revision, or unknown without one; a requested name without a node yields
\* no item; without a filter the root entry yields none; without a lock
\* document there is no item and nothing is thrown.
C27_FlakeInputItems ==
  disc.pc \in {"output", "done"} =>
    LET nodes == disc.lock.nodes
        requested == IF disc.inputs # << >> THEN Range(disc.inputs)
                     ELSE DOMAIN nodes \ {ROOT}
    IN /\ disc.lock.file = "none" => disc.inputItems = << >>
       /\ \A n \in requested \cap DOMAIN nodes :
            \E i \in 1..Len(disc.inputItems) :
              /\ disc.inputItems[i].name = n
              /\ disc.inputItems[i].type = "flake-input"
       /\ \A i \in 1..Len(disc.inputItems) :
            /\ disc.inputItems[i].name \in requested \cap DOMAIN nodes
            /\ disc.inputItems[i].current_version =
                 (LET node == nodes[disc.inputItems[i].name]
                  IN IF node.locked /\ node.rev # NoRev
                       THEN FirstChars(node.rev, 8) ELSE Unknown)
       /\ disc.inputs = << >> => ROOT \notin ItemNames(disc.inputItems)

\* The document up to and including its first begin marker, and from its
\* first end marker onward.
UpToBegin(content) == SubSeq(content, 1, IndexOf(content, beginMarker))
FromEnd(content) == SubSeq(content, IndexOf(content, endMarker), Len(content))

\* Both markers are there, the first end marker after the first begin
\* marker.
WellMarked(content) ==
  /\ IndexOf(content, beginMarker) # 0
  /\ IndexOf(content, endMarker) # 0
  /\ IndexOf(content, beginMarker) < IndexOf(content, endMarker)

\* C28: a run of updateReadme on a document without one of the markers, or
\* with the end marker first, throws and leaves the document as it was; any
\* other run leaves the text up to and including the begin marker and the
\* text from the end marker onward as they were, whether it writes or not.
C28_OnlyBetweenMarkersChanges ==
  doc.runs > 0 =>
    /\ ~WellMarked(doc.before) => (doc.threw /\ ~doc.wrote /\ doc.content = doc.before)
    /\ doc.threw => (~doc.wrote /\ doc.content = doc.before)
    /\ (WellMarked(doc.before) /\ ~doc.threw) =>
         /\ UpToBegin(doc.content) = UpToBegin(doc.before)
         /\ \E k \in 1..Len(doc.content) :
              /\ doc.content[k] = endMarker
              /\ SubSeq(doc.content, k, Len(doc.content)) = FromEnd(doc.before)
              /\ k > IndexOf(doc.content, beginMarker)
         /\ WellMarked(doc.content)
    /\ doc.wrote <=> doc.content # doc.before

\* C28's case: text, the markers with text between them, text: a run
\* writes the entry of the package a between the markers and leaves the
\* text before and after.
C28_Witness ==
  /\ doc.runs = 1
  /\ doc.before = <<"text", beginMarker, "text", endMarker>>
  /\ doc.wrote
  /\ doc.content = <<"text", beginMarker, "LF LF", "### Utilities", "<details>", "a",
                      "text", "nix run", doc.flakeRef, "</details>", "LF", endMarker>>

\* C29 (as claimed): a run of updateReadme that follows a run that did
\* not throw, with the same package metadata and flake reference, leaves the
\* document as it was, returns false and does not write.
C29_SecondRunIsNoOp ==
  (doc.runs >= 2 /\ ~doc.previous.threw /\ doc.code = 0 /\ doc.previous.code = 0
     /\ doc.metadata = doc.previous.metadata) =>
    /\ doc.content = doc.before
    /\ ~doc.returned
    /\ ~doc.wrote
    /\ ~doc.threw

\* C30 (as claimed): a run that ended as a no-op, at the first or at the
\* second diff check, leaves a tree without modified and without untracked
\* paths, one that git status --porcelain reports nothing for.
C30_NoOpLeavesTreeClean ==
  \A r \in Runs :
    (pc[r] = "exited" /\ exitCode[r] = 0
       /\ diag[r].state \in {"DiffChecked", "DiffChecked2"}) =>
      /\ Pending(tree[r]) = {}
      /\ gitPorcelain(tree[r]) = {}

\* C31: with the working tree to itself, a run never ends at either
\* defensive abort: when the scope is checked, after the second diff check
\* found a difference, the changed and untracked paths are not none, and
\* when the stage is checked, after the scope check passed, something is
\* staged.
C31_DefensiveAbortsUnreachable ==
  \A r \in Runs :
    /\ diag[r].state \notin {"ExpectedChanges", "NothingStaged"}
    /\ "scope" \in did[r] => ("diff2" \in did[r] /\ allFilesOf(scopeTree[r]) # {})
    /\ pc[r] = "StageChecked" => ("scope" \in did[r] /\ GitDiffCachedQuiet(tree[r]) = 1)

\* C31's case: the scope check passed on one changed path of the package,
\* the path was staged and the stage check let the run go on to commit.
C31_Witness ==
  \E r \in Runs :
    /\ pc[r] = "Committed"
    /\ "staged" \in did[r]
    /\ allFilesOf(scopeTree[r]) = {FOOHASHES}
    /\ tree[r][FOOHASHES] = "staged"

\* The concurrency a call of pMap runs with, and whether pMap accepts it.
Concurrency == IF pm.given THEN pm.concurrency ELSE Len(pm.items)
Accepted == pm.integer /\ Concurrency >= 1

\* The indexes whose mapper call has resolved, and those whose call has
\* started and not settled.
Fulfilled == {k \in DOMAIN pm.values : pm.values[k] \in {"p", "q"}}
InFlight == {k \in DOMAIN pm.values : pm.calls[k] > 0 /\ pm.values[k] = "none"}

\* C33: the promise of pMap resolves only with a result array that holds, at
\* every index, the value the mapper call of that index resolved with,
\* whatever the order the calls settled in; and with a concurrency of at
\* least 1 it has resolved once the call of every index has resolved.
C33_ResultsInInputOrder ==
  pm.phase \notin {"none", "idle"} =>
    /\ pm.phase = "resolved" =>
         /\ Len(pm.results) = Len(pm.items)
         /\ \A k \in DOMAIN pm.items :
              k \in Fulfilled /\ pm.results[k] = pm.values[k]
    /\ (Accepted /\ Fulfilled = DOMAIN pm.items) => pm.phase = "resolved"

\* Three items under concurrency 2: the second call settles first, the
\* values differ, and pMap has resolved.
C33_Witness ==
  /\ pm.phase = "resolved"
  /\ pm.given /\ pm.concurrency = 2
  /\ pm.settled = <<1, 0, 2>>
  /\ pm.results = <<"p", "q", "q">>

\* C34: at every moment of a call of pMap at most min(concurrency,
\* items.length) mapper calls have started and not settled.
C34_InFlightBounded ==
  pm.phase \notin {"none", "idle"} =>
    /\ Cardinality(InFlight) <= Concurrency
    /\ Cardinality(InFlight) <= Len(pm.items)

\* Two calls in flight under concurrency 2, with a third item waiting.
C34_Witness ==
  /\ pm.phase = "pending"
  /\ pm.given /\ pm.concurrency = 2
  /\ Len(pm.items) = 3
  /\ Cardinality(InFlight) = 2

\* C35 (as claimed): once a call of pMap with an accepted concurrency has
\* no mapper call in flight and none has rejected, the mapper was invoked
\* exactly once for each index.
C35_OncePerIndex ==
  (pm.phase \notin {"none", "idle"} /\ Accepted /\ InFlight = {}
     /\ \A k \in DOMAIN pm.values : pm.values[k] # "rejected") =>
    \A k \in DOMAIN pm.items : pm.calls[k] = 1

\* C35 (amended): the mapper is never invoked twice for an index; and once
\* a call of pMap with an accepted concurrency and no undefined item has no
\* mapper call in flight and none has rejected, the mapper was invoked
\* exactly once for each index.
C35_OncePerDefinedIndex ==
  pm.phase \notin {"none", "idle"} =>
    /\ \A k \in DOMAIN pm.items : pm.calls[k] <= 1
    /\ (/\ Accepted /\ InFlight = {}
        /\ \A k \in DOMAIN pm.values : pm.values[k] # "rejected"
        /\ \A k \in DOMAIN pm.items : pm.items[k] # "<undefined>") =>
         \A k \in DOMAIN pm.items : pm.calls[k] = 1

\* Three items handed out to two workers, every call made once.
C35_Witness ==
  /\ pm.phase = "resolved"
  /\ pm.given /\ pm.concurrency = 2
  /\ Len(pm.items) = 3
  /\ \A k \in DOMAIN pm.items : pm.calls[k] = 1

\* C36 (as claimed): a call of pMap without the concurrency option, whose
\* mapper calls have all resolved, has resolved with an array as long as
\* the items; for the empty list, with the empty array.
C36_DefaultConcurrencyResolves ==
  (pm.phase \notin {"none", "idle"} /\ ~pm.given /\ Fulfilled = DOMAIN pm.items) =>
    /\ pm.phase = "resolved"
    /\ Len(pm.results) = Len(pm.items)

\* The hash obtained for each platform of the running update script: the
\* value handy's mapper call resolved with, the value calculatePlatformHashes
\* returned; "none" while there is none.
Obtained ==
  [k \in DOMAIN Platforms(upd.script) |->
     IF upd.script = "handy"
       THEN IF pm.phase = "none" \/ pm.values[k] = "rejected" THEN "none"
            ELSE pm.values[k]
       ELSE IF upd.fetched = << >> THEN "none" ELSE upd.fetched[k]]

C37_RestoredBeforeThrow ==
  dh.phase = "threw" =>
    IF ~dh.data.hash.string
      THEN dh.writes = << >> /\ dh.file = dh.original
      ELSE /\ dh.error \in {"build could not run", "build succeeded", "could not extract"}
           /\ Len(dh.writes) = 2
           /\ dh.writes[1].hash.value = dummySha256Hash
           /\ dh.writes[2] = dh.data
           /\ dh.file = dh.data

\* The build failed without a hash in its output, and the file, which held
\* an older version, now holds the data with the old hash.
C37_Witness ==
  /\ dh.phase = "threw"
  /\ dh.error = "could not extract" /\ dh.output = <<"specified:", dummySha256Hash>>
  /\ dh.original.version = "1.0"
  /\ dh.file = [version |-> "1.1", hash |-> [string |-> TRUE, value |-> "sha256-old"]]

\* C38 (as claimed): once calculateDependencyHash has returned or thrown,
\* the hashes file does not hold the placeholder under hashKey.
C38_NoDummyLeft ==
  dh.phase \in {"returned", "threw"} => dh.file.hash.value # dummySha256Hash

====
